---- MODULE Spec2Model ----
(***************************************************************************)
(* healwright: the self-healing locator resolution of withHealing()        *)
(* (src/src/healwright.ts) with the helpers of src/src/utils.ts it calls.  *)
(*                                                                         *)
(* One wrapper instance (one withHealing closure) is modelled together     *)
(* with its environment: the cache file, the event-log file, the browser   *)
(* driver and the AI backend.  A heal call runs as a sequence of steps,    *)
(* one per group of awaits of healAction; the driver, the file system and  *)
(* the backend answer each step nondeterministically.                      *)
(*                                                                         *)
(* The exported helpers validateStrategy/buildLocator, cacheKey, withRetry *)
(* with isRetryableError, and rankCandidates are also run on their own,    *)
(* each under a specification of its own (SpecStrategy, SpecCacheKey,      *)
(* SpecRetry, SpecRank) whose initial states draw the arguments.           *)
(***************************************************************************)
EXTENDS Integers, Sequences, FiniteSets, TLC

\* ------------------------------------------------------------------ bounds
MaxCalls == 2            \* heal calls made on the wrapper in one behaviour
MaxPlanLen == 2          \* candidates in a plan returned by the backend

MaxRetriesGiven == 2     \* the largest maxRetries withRetry is called with
MaxCandidates == 3       \* candidates handed to rankCandidates, and its largest limit
MaxContentLen == 4       \* characters in the string value of a response given to cleanJson
MaxResponseItems == 3    \* elements of the candidates array of a parsed answer

\* ------------------------------------------------------- program constants
DefaultMaxAiTries == 4   \* opts?.maxAiTries ?? 4
DefaultBaseDelayMs == 1000   \* withRetry(fn, maxRetries = 1, baseDelayMs = 1000)

\* --------------------------------------------------------------- strategies
\* StrategyT, reduced to the fields validateStrategy and buildLocator branch
\* on; "" stands for an absent, null or empty field (all falsy in the code).
Strat(t, v, sel, r, txt) ==
    [type |-> t, value |-> v, selector |-> sel, role |-> r, text |-> txt]

NoStrategy == Strat("none", "", "", "", "")
StratA == Strat("testid", "submit", "", "", "")
StratB == Strat("css", "", "#submit", "", "")
StratX == Strat("role", "", "", "", "")          \* lacks its required field
Strategies == {StratA, StratB, StratX}
\* The strategies a backend plan is drawn from.
PlanStrategies == {StratB, StratX}

\* The kinds validateStrategy and buildLocator have a case for.
StrategyKinds == {"testid", "role", "label", "placeholder", "text", "altText", "title", "css"}

\* validateStrategy with a fault: the altText and title cases are missing.
validateStrategyLacksCases(s) ==
    CASE s.type = "testid" -> IF s.value = "" THEN "missing 'value'" ELSE ""
      [] s.type = "role" -> IF s.role = "" THEN "missing 'role'" ELSE ""
      [] s.type \in {"label", "placeholder", "text"} ->
             IF s.text = "" THEN "missing 'text'" ELSE ""
      [] s.type = "css" -> IF s.selector = "" THEN "missing 'selector'" ELSE ""
      [] OTHER -> ""

\* validateStrategy: the message naming the missing field, "" for null.
validateStrategy(s) ==
    CASE s.type = "testid" -> IF s.value = "" THEN "missing 'value'" ELSE ""
      [] s.type = "role" -> IF s.role = "" THEN "missing 'role'" ELSE ""
      [] s.type \in {"label", "placeholder", "text", "altText", "title"} ->
             IF s.text = "" THEN "missing 'text'" ELSE ""
      [] s.type = "css" -> IF s.selector = "" THEN "missing 'selector'" ELSE ""
      [] OTHER -> ""

\* buildLocator: TRUE when it throws instead of returning a locator.
buildLocatorThrows(s) ==
    CASE s.type = "testid" -> s.value = ""
      [] s.type = "role" -> s.role = ""
      [] s.type \in {"label", "placeholder", "text", "altText", "title"} ->
             s.text = ""
      [] s.type = "css" -> s.selector = ""
      [] OTHER -> TRUE

\* ------------------------------------------------------------------- errors
\* A thrown value: its kind and the description its message mentions.
Err(n, c) == [name |-> n, ctx |-> c]
NoErr == Err("none", "")
JsNull == Err("null", "")

\* ------------------------------------------------------------ call inputs
\* A target is a Locator object or a string; "" is the AI-only sentinel.
LocatorTarget == [isString |-> FALSE, str |-> ""]
EmptyTarget == [isString |-> TRUE, str |-> ""]
Targets == {LocatorTarget, EmptyTarget}
Contexts == {"Submit button"}
Methods == {"click", "fill", "selectOption"}
TestNames == {"", "t1"}                           \* "" is undefined

\* page.url(): an address, written as the parts the URL parser separates;
\* "" is a part the address does not have.
Href(o, p, q, f) == [origin |-> o, path |-> p, query |-> q, fragment |-> f]

\* new URL(href): an address without a path has the pathname "/".
URL(href) ==
    [origin |-> href.origin,
     pathname |-> IF href.path = "" THEN "/" ELSE href.path,
     search |-> href.query,
     hash |-> href.fragment]

PageUrl == Href("https://x", "/y", "?q=1", "#h")

isValidLocator(target) == ~target.isString \/ target.str # ""

\* cacheKey with a fault: the query string is part of the key.
cacheKeyKeepsSearch(href, action, contextName) ==
    LET u == URL(href)
    IN action \o "::" \o u.origin \o u.pathname \o u.search \o "::" \o contextName

\* `${action}::${u.origin}${u.pathname}::${contextName}`
cacheKey(href, action, contextName) ==
    LET u == URL(href)
    IN action \o "::" \o u.origin \o u.pathname \o "::" \o contextName

\* healMethods: the action and the AI action each method passes to healAction.
MethodAction(m) == IF m = "selectOption" THEN "click" ELSE m
MethodAiAction(m) ==
    CASE m \in {"dblclick", "hover"} -> "click"
      [] m \in {"check", "focus"} -> "fill"
      [] OTHER -> MethodAction(m)

Keys == {cacheKey(PageUrl, MethodAction(m), c) : m \in Methods, c \in Contexts}

\* ------------------------------------------------------------------- caches
NoEntry == [strategy |-> NoStrategy, context |-> "", testName |-> ""]
EmptyCache == [k \in Keys |-> NoEntry]
EmptyMem == [k \in Keys |-> NoStrategy]
ClickKey == cacheKey(PageUrl, "click", "Submit button")

\* The cache file before the wrapper runs: absent or unreadable, or a map
\* left by an earlier run (its entry may no longer be usable).
FileOf(data) == [readable |-> TRUE, data |-> data]
NoFile == [readable |-> FALSE, data |-> EmptyCache]
InitFiles ==
    {NoFile} \cup
    {FileOf([EmptyCache EXCEPT ![ClickKey] =
                [strategy |-> s, context |-> "Submit button", testName |-> ""]]) :
        s \in {StratA, StratX}}

\* readJson(file, {}): the parsed map, the fallback on any error.
readJson(f) == IF f.readable THEN f.data ELSE EmptyCache

\* -------------------------------------------------------------------- plans
RECURSIVE SeqsUpTo(_, _)
SeqsUpTo(S, n) ==
    IF n = 0 THEN {<<>>}
    ELSE LET shorter == SeqsUpTo(S, n - 1)
         IN shorter \cup {Append(q, x) : q \in {p \in shorter : Len(p) = n - 1}, x \in S}

NullPlan == [isNull |-> TRUE, candidates |-> <<>>]
PlanOf(cs) == [isNull |-> FALSE, candidates |-> cs]
Plans == {PlanOf(cs) : cs \in SeqsUpTo(PlanStrategies, MaxPlanLen)}

Min(a, b) == IF a <= b THEN a ELSE b
Count(tr, ev) == Cardinality({i \in 1..Len(tr) : tr[i] = ev})
Has(tr, ev) == \E i \in 1..Len(tr) : tr[i] = ev

VARIABLES
    enabled,             \* opts.enabled
    openai,              \* the backend client exists (enabled && apiKey)
    maxAiTries,
    currentTestName,
    bannerShownForTest,
    banners,             \* history: each showBannerOnce call, its test name and whether it emitted
    mem,                 \* in-memory map key -> strategy
    diskCacheLoaded,
    diskCache,           \* loaded disk map key -> entry
    file,                \* the cache file
    logFile,             \* the event-log lines appended since the last call settled
    pc,                  \* position of the call in flight
    call,                \* its arguments
    key,
    aiOnlyMode,
    originalErr,         \* the outer originalErr of healAction
    cached,
    plan,
    idx,                 \* pickValid's position in the plan
    choice,
    healErr,             \* the value the AI stage's try block threw
    result,              \* how the call ended
    trace,               \* history: what the call did, in order
    declErr,             \* history: the error the declared attempt raised
    probed,              \* history: what the last probe of a candidate answered
    snap,                \* history: the caches when the call began
    savedBy,             \* history: the heal method whose call last saved each key
    calls,
    input,               \* a helper called on its own: its arguments
    output,              \* what it returned or threw
    attempt,             \* withRetry's loop counter
    fnLog,               \* history: how each call of fn ended
    slept,               \* history: the backoff delays waited, in ms
    wrappers,            \* overlapping calls: the cache state of each wrapper
    tasks,               \* each overlapping call: its position and locals
    disk                 \* the directory of the cache file and its temporary

cfgVars == <<enabled, openai, maxAiTries>>
bannerVars == <<currentTestName, bannerShownForTest, banners>>
cacheVars == <<mem, diskCacheLoaded, diskCache, file>>
localVars == <<call, key, aiOnlyMode, originalErr, cached, plan, idx, choice, healErr>>
histVars == <<declErr, probed, snap, savedBy, calls>>
healVars == <<cfgVars, bannerVars, cacheVars, logFile, pc, localVars, result, trace, histVars>>
unitVars == <<input, output, attempt, fnLog, slept>>
fileVars == <<wrappers, tasks, disk>>
vars == <<unitVars, healVars, fileVars>>

NoCall == [method |-> "", action |-> "", aiAction |-> "", target |-> EmptyTarget,
           contextName |-> ""]
NoResult == [status |-> "none", value |-> NoErr]
Returned == [status |-> "returned", value |-> NoErr]
Rejected(e) == [status |-> "rejected", value |-> e]
NoSnap == [mem |-> EmptyMem, diskCache |-> EmptyCache, file |-> NoFile, loaded |-> FALSE]
NoProbe == [throws |-> FALSE, count |-> -1, visible |-> FALSE]
NoInput == [fn |-> "none"]
Pending == [status |-> "pending"]

\* No helper is being called on its own.
NoHelperCall ==
    /\ input = NoInput
    /\ output = Pending
    /\ attempt = 0
    /\ fnLog = <<>>
    /\ slept = <<>>

\* No call is in flight on the wrapper.
NoHealCall ==
    /\ pc = "idle"
    /\ call = NoCall
    /\ key = ""
    /\ aiOnlyMode = FALSE
    /\ originalErr = NoErr
    /\ cached = NoStrategy
    /\ plan = NullPlan
    /\ idx = 0
    /\ choice = NoStrategy
    /\ healErr = NoErr
    /\ result = NoResult
    /\ trace = <<>>
    /\ declErr = NoErr
    /\ probed = NoProbe
    /\ snap = NoSnap

\* The state right after withHealing(page, opts) returned.
\* No overlapping calls: the cache file is followed in the variable file.
NoDisk == [names |-> <<>>, inodes |-> <<>>, lastWrite |-> 0]
NoTasks == wrappers = <<>> /\ tasks = <<>> /\ disk = NoDisk

Init ==
    /\ enabled \in BOOLEAN
    /\ openai \in {b \in BOOLEAN : b => enabled}
    /\ maxAiTries \in {1, DefaultMaxAiTries}
    /\ currentTestName \in TestNames
    /\ bannerShownForTest = ""
    /\ banners = <<>>
    /\ mem = EmptyMem
    /\ diskCacheLoaded = FALSE
    /\ diskCache = EmptyCache
    /\ file \in InitFiles
    /\ logFile = <<>>
    /\ NoHealCall
    /\ savedBy = [k \in Keys |-> ""]
    /\ calls = 0
    /\ NoHelperCall
    /\ NoTasks

\* ---------------------------------------------------------------- event log
\* A record of the log, reduced to the fields that tell the outcomes apart.
LogRec(used, success, error) == [used |-> used, success |-> success, error |-> error]

\* appendLog: mkdir errors are ignored and appendFile's rejection is caught,
\* so the record is appended or silently dropped; it never throws.
appendLog(lf, rec, appended) == IF appended THEN Append(lf, rec) ELSE lf

\* ------------------------------------------------------------ driver answers
\* The error a failing driver operation raises.
WaitError == Err("TimeoutError", "")
ActionError == Err("ActionError", "")
StableError == Err("LoadStateError", "")
DriverError(o) ==
    CASE o = "waitFail" -> WaitError
      [] o = "actFail" -> ActionError
      [] OTHER -> StableError

\* waitForStable is awaited after click and dblclick only.
SettlesAfter(action) == action \in {"click", "dblclick"}
ActOutcomes(action) ==
    {"waitFail", "actFail", "ok"} \cup
    (IF SettlesAfter(action) THEN {"stableFail"} ELSE {})

\* What probing one candidate's locator answers in pickValid.
Probe(t, c, v) == [throws |-> t, count |-> c, visible |-> v]
Probes == {Probe(TRUE, 0, FALSE), Probe(FALSE, 0, FALSE), Probe(FALSE, 2, TRUE),
           Probe(FALSE, 1, FALSE), Probe(FALSE, 1, TRUE)}
\* RejectReason with a fault: a probe that threw does not reject the candidate.
RejectReasonIgnoresThrow(p) ==
    IF p.count # 1 /\ ~p.throws THEN IF p.count = 0 THEN "count=0" ELSE "count=2"
    ELSE IF ~p.visible /\ ~p.throws THEN "not visible"
    ELSE ""

\* RejectReason with a fault: a match that is not visible is accepted.
RejectReasonIgnoresVisible(p) ==
    IF p.throws THEN "error"
    ELSE IF p.count # 1 THEN IF p.count = 0 THEN "count=0" ELSE "count=2"
    ELSE ""

\* pickValid, lines 153-164: why a probed candidate is passed over, "" when
\* it is returned.
RejectReason(p) ==
    IF p.throws THEN "error"
    ELSE IF p.count # 1 THEN IF p.count = 0 THEN "count=0" ELSE "count=2"
    ELSE IF ~p.visible THEN "not visible"
    ELSE ""

\* ------------------------------------------------------------------ actions
\* StartPc with a fault: the declared locator is skipped, the cache comes first.
StartPcSkipsDeclared(aiOnly) == "healFlow"

\* StartPc with a fault: the declared target is attempted even when it is "".
StartPcAlwaysDeclared(aiOnly) == "tryOriginal"

\* healAction, lines 187-192: where a call starts.
StartPc(aiOnly) == IF aiOnly THEN "healFlow" ELSE "tryOriginal"

\* One of healMethods is called: healAction's synchronous prologue.
HealCall(m, t, c) ==
    /\ pc = "idle"
    /\ calls < MaxCalls
    /\ calls' = calls + 1
    /\ call' = [method |-> m, action |-> MethodAction(m), aiAction |-> MethodAiAction(m),
                target |-> t, contextName |-> c]
    /\ key' = cacheKey(PageUrl, MethodAction(m), c)
    /\ aiOnlyMode' = ~isValidLocator(t)
    /\ pc' = StartPc(~isValidLocator(t))
    /\ originalErr' = NoErr
    /\ cached' = NoStrategy
    /\ plan' = NullPlan
    /\ idx' = 0
    /\ choice' = NoStrategy
    /\ healErr' = NoErr
    /\ result' = NoResult
    /\ trace' = <<>>
    /\ declErr' = NoErr
    /\ probed' = NoProbe
    /\ snap' = [mem |-> mem, diskCache |-> diskCache, file |-> file,
                loaded |-> diskCacheLoaded]
    /\ UNCHANGED <<unitVars, fileVars, cfgVars, bannerVars, cacheVars, logFile, savedBy>>

\* OriginalOk with a fault: the success is reported to the event log.
OriginalOkLogs ==
    /\ pc' = "done"
    /\ result' = Returned
    /\ logFile' = Append(logFile, [used |-> "declared", success |-> TRUE, error |-> ""])
    /\ UNCHANGED <<unitVars, fileVars, cfgVars, bannerVars, cacheVars, localVars, probed, snap, savedBy, calls>>

\* The declared locator became ready and the action succeeded: return.
OriginalOk ==
    /\ pc' = "done"
    /\ result' = Returned
    /\ UNCHANGED <<unitVars, fileVars, cfgVars, bannerVars, cacheVars, logFile, localVars, probed, snap, savedBy, calls>>

\* OriginalCatch with a fault: a new error is thrown in place of the caught one.
OriginalCatchWraps(e) ==
    /\ IF ~enabled
       THEN pc' = "done" /\ result' = Rejected(Err("Error", ""))
       ELSE pc' = "healFlow" /\ result' = result
    /\ UNCHANGED <<unitVars, fileVars, cfgVars, bannerVars, cacheVars, logFile, localVars, probed, snap, savedBy, calls>>

\* catch (originalErr) { if (!enabled) throw originalErr; }
OriginalCatch(e) ==
    /\ IF ~enabled
       THEN pc' = "done" /\ result' = Rejected(e)
       ELSE pc' = "healFlow" /\ result' = result
    /\ UNCHANGED <<unitVars, fileVars, cfgVars, bannerVars, cacheVars, logFile, localVars, probed, snap, savedBy, calls>>

\* Try original locator first: waitForReady with quickTimeout, performAction.
TryOriginal ==
    /\ pc = "tryOriginal"
    /\ \E o \in {"waitFail", "actFail", "ok"} :
          IF o = "ok"
          THEN /\ trace' = trace \o <<"declared", "declaredOk">>
               /\ declErr' = declErr
               /\ OriginalOk
          ELSE /\ trace' = trace \o <<"declared", "declaredFailed">>
               /\ declErr' = DriverError(o)
               /\ OriginalCatch(DriverError(o))

\* showBannerOnce
showBannerOnce ==
    /\ banners' = Append(banners, [testName |-> currentTestName,
                                   banner |-> bannerShownForTest # currentTestName])
    /\ bannerShownForTest' = IF bannerShownForTest # currentTestName
                             THEN currentTestName
                             ELSE bannerShownForTest
    /\ UNCHANGED currentTestName

\* HealFlow with a fault: the guard of line 204 is missing.
HealFlowNoGuard ==
    /\ pc = "healFlow"
    /\ originalErr' = IF aiOnlyMode THEN Err("AIDetectMode", call.contextName) ELSE JsNull
    /\ pc' = "cacheLookup"
    /\ result' = result
    /\ showBannerOnce
    /\ UNCHANGED <<unitVars, fileVars, cfgVars, cacheVars, logFile, call, key, aiOnlyMode, cached, plan, idx,
                   choice, healErr, trace, histVars>>

\* Lines 203-211: the outer originalErr, the AI-only guard, the banner.
HealFlow ==
    /\ pc = "healFlow"
    /\ originalErr' = IF aiOnlyMode THEN Err("AIDetectMode", call.contextName) ELSE JsNull
    /\ IF ~enabled /\ aiOnlyMode
       THEN /\ pc' = "done"
            /\ result' = Rejected(Err("RequiresHealing", ""))
            /\ UNCHANGED bannerVars
       ELSE /\ pc' = "cacheLookup"
            /\ result' = result
            /\ showBannerOnce
    /\ UNCHANGED <<unitVars, fileVars, cfgVars, cacheVars, logFile, call, key, aiOnlyMode, cached, plan, idx,
                   choice, healErr, trace, histVars>>

\* ensureDiskCacheLoaded: the disk map after the call.
ensureDiskCacheLoaded == IF diskCacheLoaded THEN diskCache ELSE readJson(file)

\* mem.get(key) ?? cache[key]
cacheGet(m, d, k) == IF m[k] # NoStrategy THEN m[k] ELSE d[k].strategy

\* Lines 213-217: load the disk map if needed and look the key up.
CacheLookup ==
    /\ pc = "cacheLookup"
    /\ diskCache' = ensureDiskCacheLoaded
    /\ diskCacheLoaded' = TRUE
    /\ cached' = cacheGet(mem, ensureDiskCacheLoaded, key)
    /\ trace' = trace \o (IF diskCacheLoaded THEN <<>> ELSE <<"fileRead">>) \o <<"cacheGet">>
                      \o (IF cacheGet(mem, ensureDiskCacheLoaded, key) = NoStrategy
                          THEN <<"cacheNone">> ELSE <<>>)
    /\ pc' = IF cacheGet(mem, ensureDiskCacheLoaded, key) # NoStrategy
             THEN "tryCached" ELSE "askAI"
    /\ UNCHANGED <<unitVars, fileVars, cfgVars, bannerVars, mem, file, logFile, call, key, aiOnlyMode,
                   originalErr, plan, idx, choice, healErr, result, histVars>>

\* Lines 218-228: the cached strategy is tried inside one try block; any
\* throw, the settle wait's included, lands in the catch and falls through.
TryCached ==
    /\ pc = "tryCached"
    /\ \E o \in (IF buildLocatorThrows(cached) THEN {"buildFail"} ELSE ActOutcomes(call.action)),
          appended \in BOOLEAN :
          IF o = "ok"
          THEN /\ logFile' = appendLog(logFile, LogRec("cache", TRUE, ""), appended)
               /\ trace' = trace \o <<"cachedTry", "cachedActOk", "logCache">>
               /\ pc' = "done"
               /\ result' = Returned
          ELSE /\ appended
               /\ logFile' = logFile
               /\ trace' = trace \o <<"cachedTry">>
                                 \o (IF o = "stableFail" THEN <<"cachedActOk">> ELSE <<>>)
                                 \o <<"cachedFailed">>
               /\ pc' = "askAI"
               /\ result' = result
    /\ UNCHANGED <<unitVars, fileVars, cfgVars, bannerVars, cacheVars, localVars, histVars>>

\* What responses.create throws: a rate-limit error (HTTP 429) or an
\* authentication error (HTTP 401).
ApiErrors == {Err("RateLimitError", ""), Err("AuthenticationError", "")}

\* askAI, called at line 233: null for no plan, a throw lands in the catch.
AskAI ==
    /\ pc = "askAI"
    /\ IF ~openai
       THEN /\ healErr' = Err("ApiKeyNotSet", "")
            /\ pc' = "catch"
            /\ UNCHANGED <<plan, idx, trace>>
       ELSE \/ /\ healErr' = Err("EvaluateError", "")      \* collectCandidates throws
               /\ pc' = "catch"
               /\ UNCHANGED <<plan, idx, trace>>
            \/ /\ healErr' \in ApiErrors                   \* responses.create throws
               /\ pc' = "catch"
               /\ trace' = trace \o <<"aiRequest">>
               /\ UNCHANGED <<plan, idx>>
            \/ /\ plan' = NullPlan                         \* empty or unparsable
               /\ idx' = 1
               /\ pc' = "pick"
               /\ trace' = trace \o <<"aiRequest", "planNull">>
               /\ UNCHANGED healErr
            \/ \E p \in Plans :
                  /\ plan' = p
                  /\ idx' = 1
                  /\ pc' = "pick"
                  /\ trace' = trace \o <<"aiRequest">>
                  /\ UNCHANGED healErr
    /\ UNCHANGED <<unitVars, fileVars, cfgVars, bannerVars, cacheVars, logFile, call, key, aiOnlyMode,
                   originalErr, cached, choice, result, histVars>>

\* slice with a fault: the whole plan is kept.
sliceKeepsAll(candidates, n) == candidates

\* plan.candidates.slice(0, maxAiTries)
slice(candidates, n) == SubSeq(candidates, 1, Min(Len(candidates), n))

\* pickValid(plan!): one step per candidate examined.
PickValid ==
    /\ pc = "pick"
    /\ IF plan.isNull
       THEN /\ healErr' = Err("TypeError", "")             \* plan.candidates of null
            /\ pc' = "catch"
            /\ UNCHANGED <<idx, choice, trace, probed>>
       ELSE IF idx > Len(slice(plan.candidates, maxAiTries))
       THEN /\ pc' = "noChoice"
            /\ choice' = NoStrategy
            /\ UNCHANGED <<idx, healErr, trace, probed>>
       ELSE IF validateStrategy(plan.candidates[idx]) # ""
       THEN /\ idx' = idx + 1                              \* candidateRejected
            /\ UNCHANGED <<pc, choice, healErr, trace, probed>>
       ELSE \E p \in Probes :
               IF RejectReason(p) = ""
               THEN /\ choice' = plan.candidates[idx]
                    /\ probed' = p
                    /\ pc' = "save"
                    /\ trace' = trace \o <<"picked">>
                    /\ UNCHANGED <<idx, healErr>>
               ELSE /\ idx' = idx + 1                      \* rejected, or probe threw
                    /\ probed' = p
                    /\ UNCHANGED <<pc, choice, healErr, trace>>
    /\ UNCHANGED <<unitVars, fileVars, cfgVars, bannerVars, cacheVars, logFile, call, key, aiOnlyMode,
                   originalErr, cached, plan, result, declErr, snap, savedBy, calls>>

\* Lines 236-240: no candidate passed; the throw is inside the try block.
NoChoice ==
    /\ pc = "noChoice"
    /\ \E appended \in BOOLEAN :
          logFile' = appendLog(logFile, LogRec("healed", FALSE, "No valid candidate"), appended)
    /\ trace' = trace \o <<"logFailed", "noValidCandidate">>
    /\ healErr' = IF originalErr # JsNull THEN originalErr
                  ELSE Err("NoValidCandidate", call.contextName)
    /\ pc' = "catch"
    /\ UNCHANGED <<unitVars, fileVars, cfgVars, bannerVars, cacheVars, call, key, aiOnlyMode, originalErr,
                   cached, plan, idx, choice, result, histVars>>

\* saveToCacheMem with a fault: the in-memory map is not updated.
saveToCacheMemSkips(m, k, s) == m

\* saveToCacheMem with a fault: the map is emptied before the entry is set.
saveToCacheMemAlone(m, k, s) == [EmptyMem EXCEPT ![k] = s]

\* saveToCache: mem.set(key, strategy)
saveToCacheMem(m, k, s) == [m EXCEPT ![k] = s]

\* saveToCacheDisk with a fault: the entry is set in an empty map.
saveToCacheDiskAlone(d, k, s, contextName, testName) ==
    [EmptyCache EXCEPT ![k] = [strategy |-> s, context |-> contextName,
                               testName |-> testName]]

\* saveToCacheDisk with a fault: the entry keeps the strategy it had.
saveToCacheDiskKeepsOld(d, k, s, contextName, testName) ==
    [d EXCEPT ![k] = [strategy |-> d[k].strategy, context |-> contextName,
                      testName |-> testName]]

\* saveToCacheDisk with a fault: the disk map is written as it was loaded.
saveToCacheDiskSkips(d, k, s, contextName, testName) == d

\* saveToCache: cache[key] = { ...strategy, context, testName }
saveToCacheDisk(d, k, s, contextName, testName) ==
    [d EXCEPT ![k] = [strategy |-> s, context |-> contextName, testName |-> testName]]

\* saveToCache with writeAtomic: a failed write or rename rejects, and the
\* rejection lands in healAction's catch.
SaveToCache ==
    /\ pc = "save"
    /\ mem' = saveToCacheMem(mem, key, choice)
    /\ diskCache' = saveToCacheDisk(ensureDiskCacheLoaded, key, choice,
                                    call.contextName, currentTestName)
    /\ diskCacheLoaded' = TRUE
    /\ \E written \in BOOLEAN :
          IF written
          THEN /\ file' = FileOf(diskCache')
               /\ trace' = trace \o <<"cacheSet", "fileWritten">>
               /\ pc' = "healedAct"
               /\ UNCHANGED healErr
          ELSE /\ file' = file
               /\ trace' = trace \o <<"cacheSet", "fileWriteFailed">>
               /\ healErr' = Err("FsError", "")
               /\ pc' = "catch"
    /\ savedBy' = [savedBy EXCEPT ![key] = call.method]
    /\ UNCHANGED <<unitVars, fileVars, cfgVars, bannerVars, logFile, call, key, aiOnlyMode, originalErr,
                   cached, plan, idx, choice, result, declErr, probed, snap, calls>>

\* Lines 244-255: the action on the healed locator, then the success record.
HealedAct ==
    /\ pc = "healedAct"
    /\ \E o \in ActOutcomes(call.action), appended \in BOOLEAN :
          IF o = "ok"
          THEN /\ logFile' = appendLog(logFile, LogRec("healed", TRUE, ""), appended)
               /\ trace' = trace \o <<"healedTry", "healedActOk", "logHealed">>
               /\ pc' = "done"
               /\ result' = Returned
               /\ UNCHANGED healErr
          ELSE /\ appended
               /\ logFile' = logFile
               /\ trace' = trace \o <<"healedTry">>
                                 \o (IF o = "stableFail" THEN <<"healedActOk">> ELSE <<>>)
               /\ healErr' = DriverError(o)
               /\ pc' = "catch"
               /\ result' = result
    /\ UNCHANGED <<unitVars, fileVars, cfgVars, bannerVars, cacheVars, call, key, aiOnlyMode, originalErr,
                   cached, plan, idx, choice, histVars>>

\* catch (healErr): log the failure, throw aiOnlyMode ? healErr : originalErr.
CatchThrown(aiOnly, hErr, oErr) == IF aiOnly THEN hErr ELSE oErr

\* Catch with a fault: after a first failure the backend is asked once more.
CatchAsksAgain ==
    /\ pc = "catch"
    /\ IF Count(trace, "aiRequest") = 1
       THEN /\ pc' = "askAI"
            /\ UNCHANGED <<logFile, trace, result>>
       ELSE /\ \E appended \in BOOLEAN :
                  logFile' = appendLog(logFile, LogRec("healed", FALSE, "Heal failed"), appended)
            /\ trace' = trace \o <<"logFailed">>
            /\ result' = Rejected(CatchThrown(aiOnlyMode, healErr, originalErr))
            /\ pc' = "done"
    /\ UNCHANGED <<unitVars, fileVars, cfgVars, bannerVars, cacheVars, localVars, histVars>>

Catch ==
    /\ pc = "catch"
    /\ \E appended \in BOOLEAN :
          logFile' = appendLog(logFile, LogRec("healed", FALSE, "Heal failed"), appended)
    /\ trace' = trace \o <<"logFailed">>
    /\ result' = Rejected(CatchThrown(aiOnlyMode, healErr, originalErr))
    /\ pc' = "done"
    /\ UNCHANGED <<unitVars, fileVars, cfgVars, bannerVars, cacheVars, localVars, histVars>>

\* The promise of the call has settled and the caller goes on: the locals
\* of healAction are gone.  The log is append-only and never read by the
\* program, so the lines of settled calls are not carried further.
Settle ==
    /\ pc = "done"
    /\ pc' = "idle"
    /\ call' = NoCall
    /\ key' = ""
    /\ aiOnlyMode' = FALSE
    /\ originalErr' = NoErr
    /\ cached' = NoStrategy
    /\ plan' = NullPlan
    /\ idx' = 0
    /\ choice' = NoStrategy
    /\ healErr' = NoErr
    /\ result' = NoResult
    /\ trace' = <<>>
    /\ declErr' = NoErr
    /\ probed' = NoProbe
    /\ snap' = NoSnap
    /\ logFile' = <<>>
    /\ UNCHANGED <<unitVars, fileVars, cfgVars, bannerVars, cacheVars, savedBy, calls>>

\* setTestName, called between heal calls.
SetTestName(n) ==
    /\ pc = "idle"
    /\ n # currentTestName
    /\ currentTestName' = n
    /\ UNCHANGED <<unitVars, fileVars, cfgVars, bannerShownForTest, banners, cacheVars, logFile, pc, localVars,
                   result,
                   trace, histVars>>

Next ==
    \/ \E m \in Methods, t \in Targets, c \in Contexts : HealCall(m, t, c)
    \/ TryOriginal
    \/ HealFlow
    \/ CacheLookup
    \/ TryCached
    \/ AskAI
    \/ PickValid
    \/ NoChoice
    \/ SaveToCache
    \/ HealedAct
    \/ Catch
    \/ Settle
    \/ \E n \in TestNames \ {""} : SetTestName(n)

Spec == Init /\ [][Next]_vars

\* ============================================= helpers called on their own
\* The helpers of utils.ts are exported and pure, or, like withRetry, have a
\* state of their own; they are run here outside any wrapper, on arguments
\* drawn from bounded sets.
NoWrapper ==
    /\ enabled = FALSE
    /\ openai = FALSE
    /\ maxAiTries = DefaultMaxAiTries
    /\ currentTestName = ""
    /\ bannerShownForTest = ""
    /\ banners = <<>>
    /\ mem = EmptyMem
    /\ diskCacheLoaded = FALSE
    /\ diskCache = EmptyCache
    /\ file = NoFile
    /\ logFile = <<>>
    /\ NoHealCall
    /\ savedBy = [k \in Keys |-> ""]
    /\ calls = 0

\* ------------------------------------------- validateStrategy, buildLocator
\* Every strategy of the eight kinds with each field present or not.
StrategyInputs ==
    {Strat(t, v, sel, r, txt) :
        t \in StrategyKinds, v \in {"", "submit"}, sel \in {"", "#submit"},
        r \in {"", "button"}, txt \in {"", "Submit"}}

\* What became of a strategy: the message validateStrategy returned and
\* whether a locator was built on the page.
Handled(via, message, built) ==
    [status |-> "handled", via |-> via, message |-> message, built |-> built]

StrategyInit ==
    /\ NoWrapper
    /\ NoTasks
    /\ input \in {[fn |-> "strategy", s |-> s] : s \in StrategyInputs}
    /\ output = Pending
    /\ attempt = 0
    /\ fnLog = <<>>
    /\ slept = <<>>

\* pickValid, lines 146-152: a candidate's strategy is validated, and
\* buildLocator is called only when validateStrategy returned null.
ValidateCandidate ==
    /\ input.fn = "strategy"
    /\ output = Pending
    /\ output' = IF validateStrategy(input.s) # ""
                 THEN Handled("pickValid", validateStrategy(input.s), FALSE)
                 ELSE Handled("pickValid", "", ~buildLocatorThrows(input.s))
    /\ UNCHANGED <<input, attempt, fnLog, slept, healVars, fileVars>>

\* healAction, line 220: a cached strategy goes to buildLocator as it is.
BuildCached ==
    /\ input.fn = "strategy"
    /\ output = Pending
    /\ output' = Handled("cached", "", ~buildLocatorThrows(input.s))
    /\ UNCHANGED <<input, attempt, fnLog, slept, healVars, fileVars>>

StrategyNext == ValidateCandidate \/ BuildCached

SpecStrategy == StrategyInit /\ [][StrategyNext]_vars

\* ----------------------------------------------------------------- cacheKey
\* Addresses with and without a path, a query string and a fragment.
Hrefs ==
    {Href(o, p, q, f) :
        o \in {"https://x", "https://z"}, p \in {"", "/", "/y"},
        q \in {"", "?q=1"}, f \in {"", "#h"}}
KeyArgs ==
    {[href |-> h, action |-> a, contextName |-> c] :
        h \in Hrefs, a \in {MethodAction(m) : m \in Methods}, c \in {"d", "Submit button"}}

\* cacheKey is called with two sets of arguments.
CacheKeyInit ==
    /\ NoWrapper
    /\ NoTasks
    /\ input \in {[fn |-> "cacheKey", a |-> a, b |-> b] : a, b \in KeyArgs}
    /\ output = Pending
    /\ attempt = 0
    /\ fnLog = <<>>
    /\ slept = <<>>

CacheKeyCalls ==
    /\ input.fn = "cacheKey"
    /\ output = Pending
    /\ output' = [status |-> "keys",
                  a |-> cacheKey(input.a.href, input.a.action, input.a.contextName),
                  b |-> cacheKey(input.b.href, input.b.action, input.b.contextName)]
    /\ UNCHANGED <<input, attempt, fnLog, slept, healVars, fileVars>>

CacheKeyNext == CacheKeyCalls

SpecCacheKey == CacheKeyInit /\ [][CacheKeyNext]_vars

\* ------------------------------------------------- isRetryableError, withRetry
\* A text is the sequence of its words; includes() looks for a phrase as a
\* run of consecutive words.
includes(text, phrase) ==
    \E i \in 0..(Len(text) - Len(phrase)) :
        \A j \in 1..Len(phrase) : text[i + j] = phrase[j]

\* String.prototype.toLowerCase, word by word.
LowerWord(w) ==
    CASE w = "Request" -> "request"
      [] w = "Timeout" -> "timeout"
      [] w = "Unauthorized" -> "unauthorized"
      [] w = "Email" -> "email"
      [] w = "Enter" -> "enter"
      [] w = "Input" -> "input"
      [] w = "Name" -> "name"
      [] w = "Rate" -> "rate"
      [] w = "Limit" -> "limit"
      [] w = "Overloaded" -> "overloaded"
      [] w = "Bad" -> "bad"
      [] OTHER -> w
toLowerCase(text) == [i \in 1..Len(text) |-> LowerWord(text[i])]

\* A value fn throws: the first defined of status, statusCode and
\* response.status, with NoStatus when none is; code, "" when it has none;
\* message, <<>> when it has none.
NoStatus == 0
Thrown(st, c, m) == [status |-> st, code |-> c, message |-> m]
ThrownValues ==
    {Thrown(st, c, m) :
        st \in {NoStatus, 401, 429, 500}, c \in {"", "ETIMEDOUT"},
        m \in {<<"Unauthorized">>, <<"Request", "Timeout">>}}
    \cup {Thrown(NoStatus, "", <<>>)}
\* What fn resolves with.
FnValue(v) == [result |-> v]
FnValues == {FnValue("plan")}

\* isRetryableError with a fault: the message is not looked at.
isRetryableErrorNoMessage(err) ==
    \/ err.status = 429
    \/ err.status # NoStatus /\ err.status >= 500
    \/ err.code \in {"ECONNRESET", "ETIMEDOUT", "ENOTFOUND"}

isRetryableError(err) ==
    \/ err.status = 429
    \/ err.status # NoStatus /\ err.status >= 500
    \/ err.code \in {"ECONNRESET", "ETIMEDOUT", "ENOTFOUND"}
    \/ LET msg == toLowerCase(err.message)
       IN \/ includes(msg, <<"rate", "limit">>)
          \/ includes(msg, <<"timeout">>)
          \/ includes(msg, <<"overloaded">>)

\* ShouldRetry with a fault: the last retry of the budget is not made.
ShouldRetryStopsEarly(att, maxRetries, err) ==
    att + 1 < maxRetries /\ isRetryableError(err)

\* ShouldRetry with a fault: the error is not classified.
ShouldRetryAnyError(att, maxRetries, err) == att < maxRetries

\* ShouldRetry with a fault: a failed call is never repeated.
ShouldRetryNever(att, maxRetries, err) == FALSE

\* withRetry, line 341: attempt < maxRetries && isRetryableError(err)
ShouldRetry(att, maxRetries, err) == att < maxRetries /\ isRetryableError(err)

\* baseDelayMs * Math.pow(2, attempt)
backoffDelay(baseDelayMs, att) == baseDelayMs * 2^att

\* nextAttempt with a fault: the loop counter is not advanced.
nextAttemptStuck(att) == att

\* for (...; attempt++)
nextAttempt(att) == att + 1

Resolved(v) == [status |-> "resolved", value |-> v]

WithRetryInit ==
    /\ NoWrapper
    /\ NoTasks
    /\ input \in {[fn |-> "withRetry", maxRetries |-> n, baseDelayMs |-> DefaultBaseDelayMs] :
                      n \in 0..MaxRetriesGiven}
    /\ output = Pending
    /\ attempt = 0
    /\ fnLog = <<>>
    /\ slept = <<>>

\* try { return await fn(); }
FnResolves(v) ==
    /\ input.fn = "withRetry"
    /\ output = Pending
    /\ attempt <= input.maxRetries
    /\ fnLog' = Append(fnLog, Resolved(v))
    /\ output' = Resolved(v)
    /\ UNCHANGED <<input, attempt, slept, healVars, fileVars>>

\* catch (err): wait and go round the loop again, or throw err; a loop that
\* ends throws lastError.
FnRejects(err) ==
    /\ input.fn = "withRetry"
    /\ output = Pending
    /\ attempt <= input.maxRetries
    /\ fnLog' = Append(fnLog, Rejected(err))
    /\ IF ShouldRetry(attempt, input.maxRetries, err)
       THEN /\ slept' = Append(slept, backoffDelay(input.baseDelayMs, attempt))
            /\ attempt' = nextAttempt(attempt)
            /\ output' = IF nextAttempt(attempt) <= input.maxRetries THEN Pending
                         ELSE Rejected(err)
       ELSE /\ output' = Rejected(err)
            /\ UNCHANGED <<attempt, slept>>
    /\ UNCHANGED <<input, healVars, fileVars>>

WithRetryNext ==
    \/ \E v \in FnValues : FnResolves(v)
    \/ \E err \in ThrownValues : FnRejects(err)

SpecRetry == WithRetryInit /\ [][WithRetryNext]_vars

\* ----------------------------------------------------------- rankCandidates
\* Texts are sequences of words, as above.  No word used below is part of
\* another one, so that looking for runs of words finds what
\* String.prototype.includes finds in the characters.
WordLength(w) ==
    CASE w \in {"go"} -> 2
      [] w \in {"your", "name", "Name"} -> 4
      [] w \in {"email", "Email", "input", "Input", "field", "enter", "Enter"} -> 5
      [] w \in {"submit", "button"} -> 6

\* t.length: the words and the spaces between them.
RECURSIVE TextLength(_)
TextLength(t) ==
    IF t = <<>> THEN 0
    ELSE WordLength(Head(t)) + (IF Len(t) > 1 THEN 1 + TextLength(Tail(t)) ELSE 0)

\* texts.join(" ")
RECURSIVE joinTexts(_)
joinTexts(texts) == IF texts = <<>> THEN <<>> ELSE Head(texts) \o joinTexts(Tail(texts))

\* A candidate of collectCandidates: the element it was made from, its tag,
\* hid, and the attributes textFields reads (<<>> for one it lacks).
TextKeys == <<"aria", "txt", "ph", "name", "tid", "alt", "title", "id", "for", "role">>
Attrs(aria, txt, ph, name, tid, role) ==
    [k \in {TextKeys[i] : i \in 1..Len(TextKeys)} |->
        CASE k = "aria" -> aria
          [] k = "txt" -> txt
          [] k = "ph" -> ph
          [] k = "name" -> name
          [] k = "tid" -> tid
          [] k = "role" -> role
          [] OTHER -> <<>>]
Candidate(tag, hid, attrs) == [el |-> 0, tag |-> tag, hid |-> hid, attrs |-> attrs]

\* The elements a page may hold.
CandidatePool ==
    { Candidate("div", TRUE, Attrs(<<>>, <<>>, <<"Enter", "your", "Email">>, <<>>, <<>>, <<>>)),
      Candidate("div", TRUE, Attrs(<<>>, <<"go">>, <<>>, <<>>, <<>>, <<>>)),
      Candidate("input", FALSE, Attrs(<<"Email">>, <<>>, <<>>, <<>>, <<>>, <<>>)),
      Candidate("input", FALSE, Attrs(<<>>, <<>>, <<>>, <<"Name">>, <<"input">>, <<>>)),
      Candidate("input", FALSE, Attrs(<<>>, <<>>, <<>>, <<"email">>, <<>>, <<>>)),
      Candidate("button", FALSE, Attrs(<<>>, <<"submit">>, <<>>, <<>>, <<>>, <<"button">>)) }

\* The candidates of a page in DOM order, each a distinct object.
CandidateLists ==
    {[i \in 1..Len(q) |-> [q[i] EXCEPT !.el = i]] : q \in SeqsUpTo(CandidatePool, MaxCandidates)}

EmailInputField == <<"Email", "input", "field">>

stopWords == {"the", "for", "and", "with", "that", "this", "from", "into", "field", "element"}

\* inferTag: the first pattern that matches a word of the description.
inferTag(c) ==
    LET lc == toLowerCase(c)
        has(ws) == \E i \in 1..Len(lc) : lc[i] \in ws
    IN CASE has({"button", "btn", "submit", "reset", "click"}) -> {"button", "input"}
         [] has({"link", "anchor", "nav"}) -> {"a"}
         [] has({"input", "text", "email", "password", "search", "phone", "tel", "url",
                 "number", "name"}) -> {"input", "textarea"}
         [] has({"checkbox", "check", "agree", "subscribe", "toggle"}) -> {"input", "label"}
         [] has({"radio"}) -> {"input"}
         [] has({"select", "dropdown", "combo"}) -> {"select"}
         [] has({"textarea", "comment"}) -> {"textarea"}
         [] has({"image", "img", "icon", "logo"}) -> {"img"}
         [] has({"label"}) -> {"label"}
         [] has({"li"}) \/ includes(lc, <<"list", "item">>) -> {"li"}
         [] OTHER -> {}

\* textFields with a fault: the values are not lowercased.
textFieldsAsWritten(cand) ==
    LET present == SelectSeq(TextKeys, LAMBDA k : cand.attrs[k] # <<>>)
    IN [i \in 1..Len(present) |-> cand.attrs[present[i]]]

\* textFields: the non-empty attributes, lowercased, in the order of the keys.
textFields(cand) ==
    LET present == SelectSeq(TextKeys, LAMBDA k : cand.attrs[k] # <<>>)
    IN [i \in 1..Len(present) |-> toLowerCase(cand.attrs[present[i]])]

\* The score the map callback gives a candidate.
score(cand, contextName) ==
    LET ctx == toLowerCase(contextName)
        texts == textFields(cand)
        allText == joinTexts(texts)
        fields == 1..Len(texts)
        ctxWords == {i \in 1..Len(ctx) : WordLength(ctx[i]) >= 3 /\ ctx[i] \notin stopWords}
        role == toLowerCase(cand.attrs["role"])
    IN (IF \E i \in fields : includes(texts[i], ctx) THEN 15 ELSE 0)
       + (IF \E i \in fields : includes(ctx, texts[i]) /\ TextLength(texts[i]) >= 3
          THEN 8 ELSE 0)
       + 3 * Cardinality({i \in ctxWords : includes(allText, <<ctx[i]>>)})
       + (IF LowerWord(cand.tag) \in inferTag(contextName) THEN 5 ELSE 0)
       + (IF role # <<>> /\ includes(ctx, role) THEN 5 ELSE 0)
       + (IF cand.attrs["tid"] # <<>> THEN 2 ELSE 0)
       + (IF ~cand.hid THEN 1 ELSE 0)

\* SortsBefore with a fault: equal scores are put in reverse DOM order.
SortsBeforeTiesReversed(scores, i, j) ==
    scores[i] > scores[j] \/ (scores[i] = scores[j] /\ i > j)

\* The comparator b.score - a.score || a.idx - b.idx puts i before j.
SortsBefore(scores, i, j) ==
    scores[i] > scores[j] \/ (scores[i] = scores[j] /\ i < j)

\* scored.sort(...): the positions of the input in sorted order.
sortOrder(scores) ==
    [k \in 1..Len(scores) |->
        CHOOSE i \in 1..Len(scores) :
            Cardinality({j \in 1..Len(scores) : SortsBefore(scores, j, i)}) = k - 1]

\* rankCandidates with a fault: candidates that score nothing are dropped.
rankCandidatesAboveZero(candidates, contextName, limit) ==
    LET scored == SelectSeq(candidates, LAMBDA c : score(c, contextName) > 0)
    IN SubSeq(scored, 1, Min(Len(scored), limit))

rankCandidates(candidates, contextName, limit) ==
    IF Len(candidates) <= limit THEN candidates
    ELSE LET scores == [i \in 1..Len(candidates) |-> score(candidates[i], contextName)]
             order == sortOrder(scores)
         IN [k \in 1..limit |-> candidates[order[k]]]

RankInit ==
    /\ NoWrapper
    /\ NoTasks
    /\ input \in {[fn |-> "rankCandidates", candidates |-> cs, contextName |-> EmailInputField,
                    limit |-> n] : cs \in CandidateLists, n \in 0..MaxCandidates}
    /\ output = Pending
    /\ attempt = 0
    /\ fnLog = <<>>
    /\ slept = <<>>

RankCalls ==
    /\ input.fn = "rankCandidates"
    /\ output = Pending
    /\ output' = [status |-> "ranked",
                  candidates |-> rankCandidates(input.candidates, input.contextName,
                                                input.limit)]
    /\ UNCHANGED <<input, attempt, fnLog, slept, healVars, fileVars>>

RankNext == RankCalls

SpecRank == RankInit /\ [][RankNext]_vars

\* ---------------------------------------------------------------- cleanJson
\* A raw response is the sequence of its characters; the Markdown fence and
\* the word json after it are one element each.
Quote == "\""
Backslash == "\\"
Newline == "\n"
Tab == "\t"
Fence == "fence"             \* three backticks
Whitespace == {" ", Newline, Tab}

\* The first position from i on that holds no whitespace (whitespace).
RECURSIVE SkipWs(_, _)
SkipWs(s, i) == IF i <= Len(s) /\ s[i] \in Whitespace THEN SkipWs(s, i + 1) ELSE i

\* ^ with the m flag: the start of the text or of a line.
AtLineStart(s, i) == i = 1 \/ s[i - 1] = Newline

\* The first newline from i on, Len(s) + 1 when there is none (the end of the line).
RECURSIVE LineEnd(_, _)
LineEnd(s, i) == IF i <= Len(s) /\ s[i] # Newline THEN LineEnd(s, i + 1) ELSE i

\* String.prototype.trim
RECURSIVE trimEnd(_)
trimEnd(s) ==
    IF s # <<>> /\ s[Len(s)] \in Whitespace THEN trimEnd(SubSeq(s, 1, Len(s) - 1)) ELSE s
trim(s) == trimEnd(SubSeq(s, SkipWs(s, 1), Len(s)))

\* The first replace: a fence at the start of a line, the word json if it
\* follows, and the whitespace after them are removed; from position i on.
RECURSIVE stripOpeningFences(_, _)
stripOpeningFences(s, i) ==
    IF i > Len(s) THEN <<>>
    ELSE IF s[i] = Fence /\ AtLineStart(s, i)
    THEN LET j == IF i + 1 <= Len(s) /\ s[i + 1] = "json" THEN i + 2 ELSE i + 1
         IN stripOpeningFences(s, SkipWs(s, j))
    ELSE <<s[i]>> \o stripOpeningFences(s, i + 1)

\* Where the second pattern ends when it starts at the fence at i: after the
\* whitespace that follows, at the end of the text or before the last
\* newline of that whitespace; 0 when the fence does not end a line.
FenceMatchEnd(s, i) ==
    LET k == SkipWs(s, i + 1)
        stops == {p \in (i + 1)..k : p = Len(s) + 1 \/ (p <= Len(s) /\ s[p] = Newline)}
    IN IF stops = {} THEN 0 ELSE CHOOSE p \in stops : \A q \in stops : q <= p

\* The second replace: a fence that ends a line is removed with the
\* whitespace after it; from position i on.
RECURSIVE stripClosingFences(_, _)
stripClosingFences(s, i) ==
    IF i > Len(s) THEN <<>>
    ELSE IF s[i] = Fence /\ FenceMatchEnd(s, i) # 0
    THEN stripClosingFences(s, FenceMatchEnd(s, i))
    ELSE <<s[i]>> \o stripClosingFences(s, i + 1)

\* Line 51: two slashes at the start of a line, after whitespace at most,
\* are removed with the rest of the line; from position i on.
RECURSIVE stripLineComments(_, _)
stripLineComments(s, i) ==
    IF i > Len(s) THEN <<>>
    ELSE LET k == SkipWs(s, i)
         IN IF AtLineStart(s, i) /\ k + 1 <= Len(s) /\ s[k] = "/" /\ s[k + 1] = "/"
            THEN SubSeq(s, i, k - 1) \o stripLineComments(s, LineEnd(s, k + 2))
            ELSE <<s[i]>> \o stripLineComments(s, i + 1)

\* The position of the first "*" "/" from i on, 0 when there is none.
RECURSIVE CommentClose(_, _)
CommentClose(s, i) ==
    IF i + 1 > Len(s) THEN 0
    ELSE IF s[i] = "*" /\ s[i + 1] = "/" THEN i
    ELSE CommentClose(s, i + 1)

\* Line 54: a slash and a star are removed with everything up to the next
\* star and slash; from position i on.
RECURSIVE stripBlockComments(_, _)
stripBlockComments(s, i) ==
    IF i > Len(s) THEN <<>>
    ELSE IF /\ i + 1 <= Len(s) /\ s[i] = "/" /\ s[i + 1] = "*"
            /\ CommentClose(s, i + 2) # 0
    THEN stripBlockComments(s, CommentClose(s, i + 2) + 2)
    ELSE <<s[i]>> \o stripBlockComments(s, i + 1)

\* Lines 57 and 99: a comma followed, after whitespace at most, by a closing
\* brace or bracket is removed with that whitespace; from position i on.
RECURSIVE stripTrailingCommas(_, _)
stripTrailingCommas(s, i) ==
    IF i > Len(s) THEN <<>>
    ELSE LET k == SkipWs(s, i + 1)
         IN IF s[i] = "," /\ k <= Len(s) /\ s[k] \in {"}", "]"}
            THEN <<s[k]>> \o stripTrailingCommas(s, k + 1)
            ELSE <<s[i]>> \o stripTrailingCommas(s, i + 1)

\* JSON.parse, as a recogniser: each operator answers the position after
\* what it read, 0 when the text is no JSON there.  Numbers are runs of "1",
\* the literal null is one token, and so is a word between quotes.
RECURSIVE ParseString(_, _)
ParseString(s, i) ==
    IF i > Len(s) \/ s[i] \in {Newline, Tab} THEN 0
    ELSE IF s[i] = Quote THEN i + 1
    ELSE IF s[i] = Backslash
    THEN IF i + 1 <= Len(s) /\ s[i + 1] \in {Quote, Backslash, "/", "b", "f", "n", "r", "t"}
         THEN ParseString(s, i + 2) ELSE 0
    ELSE ParseString(s, i + 1)

RECURSIVE ParseNumber(_, _)
ParseNumber(s, i) == IF i <= Len(s) /\ s[i] = "1" THEN ParseNumber(s, i + 1) ELSE i

RECURSIVE ParseValue(_, _)
RECURSIVE ParseMembers(_, _)
RECURSIVE ParseElements(_, _)
ParseValue(s, i) ==
    LET j == SkipWs(s, i)
    IN IF j > Len(s) THEN 0
       ELSE IF s[j] = Quote THEN ParseString(s, j + 1)
       ELSE IF s[j] = "1" THEN ParseNumber(s, j)
       ELSE IF s[j] = "null" THEN j + 1
       ELSE IF s[j] = "{"
       THEN IF SkipWs(s, j + 1) <= Len(s) /\ s[SkipWs(s, j + 1)] = "}"
            THEN SkipWs(s, j + 1) + 1
            ELSE ParseMembers(s, j + 1)
       ELSE IF s[j] = "["
       THEN IF SkipWs(s, j + 1) <= Len(s) /\ s[SkipWs(s, j + 1)] = "]"
            THEN SkipWs(s, j + 1) + 1
            ELSE ParseElements(s, j + 1)
       ELSE 0

\* "key": value, then a comma and more members, or the closing brace.
ParseMembers(s, i) ==
    LET j == SkipWs(s, i)
        k == IF j <= Len(s) /\ s[j] = Quote THEN ParseString(s, j + 1) ELSE 0
        c == IF k = 0 THEN 0 ELSE SkipWs(s, k)
        v == IF c # 0 /\ c <= Len(s) /\ s[c] = ":" THEN ParseValue(s, c + 1) ELSE 0
        e == IF v = 0 THEN 0 ELSE SkipWs(s, v)
    IN IF e = 0 \/ e > Len(s) THEN 0
       ELSE IF s[e] = "}" THEN e + 1
       ELSE IF s[e] = "," THEN ParseMembers(s, e + 1)
       ELSE 0

ParseElements(s, i) ==
    LET v == ParseValue(s, i)
        e == IF v = 0 THEN 0 ELSE SkipWs(s, v)
    IN IF e = 0 \/ e > Len(s) THEN 0
       ELSE IF s[e] = "]" THEN e + 1
       ELSE IF s[e] = "," THEN ParseElements(s, e + 1)
       ELSE 0

\* JSON.parse(s) returns instead of throwing.
JSONparses(s) ==
    LET e == ParseValue(s, 1)
    IN e # 0 /\ SkipWs(s, e) = Len(s) + 1

\* s.search: the first opening brace or bracket, 0 for -1.
RECURSIVE searchOpen(_, _)
searchOpen(s, i) ==
    IF i > Len(s) THEN 0
    ELSE IF s[i] \in {"{", "["} THEN i
    ELSE searchOpen(s, i + 1)

\* Lines 74-91: the position of the bracket that closes s[1], Len(s) when
\* the loop ends without a break.
RECURSIVE matchClose(_, _, _, _, _)
matchClose(s, i, depth, inString, escaped) ==
    IF i > Len(s) THEN Len(s)
    ELSE LET plain == ~escaped /\ s[i] \notin {Backslash, Quote} /\ ~inString
             opens == plain /\ s[i] = s[1]
             closes == plain /\ ~opens /\ s[i] = (IF s[1] = "{" THEN "}" ELSE "]")
         IN IF depth = 1 /\ closes THEN i
            ELSE matchClose(s, i + 1,
                            IF opens THEN depth + 1 ELSE IF closes THEN depth - 1 ELSE depth,
                            IF ~escaped /\ s[i] = Quote THEN ~inString ELSE inString,
                            ~escaped /\ s[i] = Backslash)

\* Lines 68-92: the first complete object or array of the text.
extractFirst(s) ==
    IF searchOpen(s, 1) = 0 THEN s
    ELSE LET t == SubSeq(s, searchOpen(s, 1), Len(s))
         IN SubSeq(t, 1, matchClose(t, 1, 0, FALSE, FALSE))

\* Lines 95-96: a newline or tab with a quote somewhere before it and a quote
\* somewhere after it is written as its escape.
escapeControls(s) ==
    LET between(i) == (\E q \in 1..(i - 1) : s[q] = Quote)
                      /\ (\E q \in (i + 1)..Len(s) : s[q] = Quote)
        piece(i) == IF s[i] = Newline /\ between(i) THEN <<Backslash, "n">>
                    ELSE IF s[i] = Tab /\ between(i) THEN <<Backslash, "t">>
                    ELSE <<s[i]>>
    IN joinTexts([i \in 1..Len(s) |-> piece(i)])

cleanJson(raw) ==
    LET fenced == trim(stripClosingFences(stripOpeningFences(raw, 1), 1))
        s == stripTrailingCommas(stripBlockComments(stripLineComments(fenced, 1), 1), 1)
    IN IF JSONparses(s) THEN s
       ELSE trim(stripTrailingCommas(escapeControls(extractFirst(s)), 1))

\* What goes between the quotes of the string value of a response.
ContentChars == {"a", ",", "}", "/", "*"}
\* Responses that are valid JSON: an object with one string member, alone or
\* with whitespace around it.
JsonDocuments ==
    LET quoted(c) == <<"{", Quote, "a", Quote, ":", Quote>> \o c \o <<Quote, "}">>
    IN {d \in {quoted(c) : c \in SeqsUpTo(ContentChars, MaxContentLen)}
              \cup {<<" ">> \o quoted(c) \o <<Newline>> :
                        c \in SeqsUpTo(ContentChars, MaxContentLen)} :
           JSONparses(d)}

CleanJsonInit ==
    /\ NoWrapper
    /\ NoTasks
    /\ input \in {[fn |-> "cleanJson", raw |-> d] : d \in JsonDocuments}
    /\ output = Pending
    /\ attempt = 0
    /\ fnLog = <<>>
    /\ slept = <<>>

\* cleanJson is applied to the response, and to its own result.
CleanJsonCalls ==
    /\ input.fn = "cleanJson"
    /\ output = Pending
    /\ output' = [status |-> "cleaned", once |-> cleanJson(input.raw),
                  twice |-> cleanJson(cleanJson(input.raw))]
    /\ UNCHANGED <<input, attempt, fnLog, slept, healVars, fileVars>>

CleanJsonNext == CleanJsonCalls

SpecCleanJson == CleanJsonInit /\ [][CleanJsonNext]_vars

\* ------------------------------------------------------- generateHealPlan
\* JSON values: what JSON.parse returns and what the decoding passes on.
Undefined == [t |-> "undefined"]
Null == [t |-> "null"]
Str(w) == [t |-> "string", s |-> w]
Num(n) == [t |-> "number", n |-> n]
Arr(items) == [t |-> "array", items |-> items]
Obj(members) == [t |-> "object", members |-> members]

\* v[k] of a value that is neither null nor undefined.
Get(v, k) == IF v.t = "object" /\ k \in DOMAIN v.members THEN v.members[k] ELSE Undefined
\* if (v)
Truthy(v) ==
    ~ \/ v.t \in {"undefined", "null"}
      \/ v.t = "string" /\ v.s = ""
      \/ v.t = "number" /\ v.n = 0
Restrict(members, keys) == [k \in keys \cap DOMAIN members |-> members[k]]

\* The text of a value as a backend writes it: one token for each bracket,
\* comma, colon, quote, word, number and null, the members in KeyOrder.
KeyOrder == <<"candidates", "result", "strategy", "type", "confidence", "why", "a">>
RECURSIVE stringify(_)
RECURSIVE stringifyAll(_, _)
stringify(v) ==
    CASE v.t = "null" -> <<"null">>
      [] v.t = "number" -> <<"1">>
      [] v.t = "string" -> <<Quote>> \o (IF v.s = "" THEN <<>> ELSE <<v.s>>) \o <<Quote>>
      [] v.t = "array" ->
            <<"[">> \o stringifyAll([i \in 1..Len(v.items) |-> stringify(v.items[i])], 1)
                    \o <<"]">>
      [] v.t = "object" ->
            LET keys == SelectSeq(KeyOrder, LAMBDA k : k \in DOMAIN v.members)
            IN <<"{">> \o stringifyAll([i \in 1..Len(keys) |->
                                           <<Quote, keys[i], Quote, ":">>
                                               \o stringify(v.members[keys[i]])], 1)
                       \o <<"}">>
\* The texts from the i-th on, with commas between them.
stringifyAll(texts, i) ==
    IF i > Len(texts) THEN <<>>
    ELSE texts[i] \o (IF i < Len(texts) THEN <<",">> ELSE <<>>) \o stringifyAll(texts, i + 1)

\* What a model answers with.
NestedCandidate ==
    Obj([strategy |-> Obj([type |-> Str("css")]), confidence |-> Num(1), why |-> Str("a")])
FlatCandidate == Obj([type |-> Str("css"), confidence |-> Num(1), why |-> Str("a")])
ResponseValues ==
    {Obj([candidates |-> Arr(<<NestedCandidate>>)]),
     Obj([candidates |-> Arr(<<>>)]),
     Obj([candidates |-> Arr(<<FlatCandidate>>)]),
     Obj([candidates |-> Arr(<<NestedCandidate, Obj([type |-> Str("css")])>>)]),
     Obj([candidates |-> Arr(<<Null>>)]),
     FlatCandidate,
     Obj([result |-> Obj([candidates |-> Arr(<<NestedCandidate>>)])]),
     Obj([a |-> Num(1)])}
\* The answer as it arrives: bare, between code fences, cut short, or empty.
ResponseTexts ==
    {stringify(v) : v \in ResponseValues}
    \cup {<<Fence, "json", Newline>> \o stringify(v) \o <<Newline, Fence>> : v \in ResponseValues}
    \cup {SubSeq(stringify(v), 1, Len(stringify(v)) - 1) : v \in ResponseValues}
    \cup {<<>>}

\* JSON.parse of a text it accepts.
JSONparse(s) == CHOOSE v \in ResponseValues : stringify(v) = trim(s)

\* normalizeResponse; reading a property of null raises a TypeError.
TypeError == [t |-> "throw", error |-> "TypeError"]
strategyFields == {"type", "value", "selector", "role", "name", "text", "exact"}
\* { strategy, ...rest }
reshape(c) ==
    LET strategy == Obj(Restrict(c.members, strategyFields))
        rest == Restrict(c.members, DOMAIN c.members \ strategyFields)
    IN Obj([k \in {"strategy"} \cup DOMAIN rest |->
                IF k \in DOMAIN rest THEN rest[k] ELSE strategy])
reshapeItem(c) ==
    IF c.t = "null" THEN TypeError
    ELSE IF Truthy(Get(c, "strategy")) THEN c
    ELSE IF Truthy(Get(c, "type")) THEN reshape(c)
    ELSE c
RECURSIVE normalizeResponse(_)
normalizeResponse(raw) ==
    LET candidates == Get(raw, "candidates")
        wrapperKeys == SelectSeq(<<"result", "response", "data", "output">>,
                              LAMBDA w : Truthy(Get(raw, w)))
    IN IF ~Truthy(raw) \/ raw.t \notin {"object", "array"} THEN raw
       ELSE IF candidates.t = "array" /\ Len(candidates.items) > 0
               /\ candidates.items[1].t = "null" THEN TypeError
       ELSE IF candidates.t = "array" /\ Len(candidates.items) > 0
               /\ Truthy(Get(candidates.items[1], "strategy")) THEN raw
       ELSE IF candidates.t = "array"
       THEN LET mapped == [i \in 1..Len(candidates.items) |-> reshapeItem(candidates.items[i])]
            IN IF \E i \in 1..Len(mapped) : mapped[i] = TypeError THEN TypeError
               ELSE Obj([raw.members EXCEPT !["candidates"] = Arr(mapped)])
       ELSE IF Truthy(Get(raw, "type"))
               /\ (Get(raw, "confidence") # Undefined \/ Truthy(Get(raw, "why")))
       THEN Obj([candidates |-> Arr(<<reshape(raw)>>)])
       ELSE IF wrapperKeys # <<>> THEN normalizeResponse(Get(raw, Head(wrapperKeys)))
       ELSE raw

\* HealPlan.parse: whether the schema accepts a value, and the value it returns
\* (the keys the schema does not name are dropped).
StrategyEnum == {"testid", "role", "label", "placeholder", "text", "css"}
StrategyAccepts(s) ==
    /\ s.t = "object"
    /\ Get(s, "type").t = "string" /\ Get(s, "type").s \in StrategyEnum
    /\ \A k \in {"value", "selector", "role", "name", "text"} :
            Get(s, k).t \in {"undefined", "null", "string"}
    /\ Get(s, "exact").t \in {"undefined", "null", "boolean"}
HealPlanAccepts(v) ==
    /\ v.t = "object"
    /\ Get(v, "candidates").t = "array"
    /\ \A i \in 1..Len(Get(v, "candidates").items) :
            LET c == Get(v, "candidates").items[i]
            IN /\ c.t = "object"
               /\ StrategyAccepts(Get(c, "strategy"))
               /\ Get(c, "confidence").t = "number"
               /\ Get(c, "why").t = "string"
HealPlanParse(v) ==
    LET items == v.members["candidates"].items
    IN Obj([candidates |->
              Arr([i \in 1..Len(items) |->
                     Obj([strategy |-> Obj(Restrict(items[i].members["strategy"].members,
                                                    strategyFields)),
                          confidence |-> items[i].members["confidence"],
                          why |-> items[i].members["why"]])])])

\* The backends: the OpenAI provider, the local provider, and the call
\* healwright makes itself (askAI).
Backends == {"openai", "local", "askAI"}
\* resp.usage, or the evaluation counts of a local model; NoUsage when absent.
NoUsage == [absent |-> TRUE]
Usages == {NoUsage, [input |-> 1, output |-> 2]}
tokenUsage(usage) ==
    IF usage = NoUsage THEN Null
    ELSE [inputTokens |-> usage.input, outputTokens |-> usage.output,
          totalTokens |-> usage.input + usage.output]

\* The inner try block: what the decoding of a non-empty content raises
\* ("none" when nothing), and the plan it arrives at.
Decoded(backend, content) ==
    LET text == IF backend = "askAI" THEN content ELSE cleanJson(content)
        parsed == JSONparse(text)
        normalized == IF backend = "local" THEN normalizeResponse(parsed) ELSE parsed
    IN IF ~JSONparses(text) THEN [raised |-> "SyntaxError", plan |-> Null]
       ELSE IF normalized = TypeError THEN [raised |-> "TypeError", plan |-> Null]
       ELSE IF ~HealPlanAccepts(normalized) THEN [raised |-> "ZodError", plan |-> Null]
       ELSE [raised |-> "none", plan |-> HealPlanParse(normalized)]

\* generateHealPlan with a fault: what the decoding raises is thrown on.
HealPlanResultRethrows(backend, content, usage) ==
    IF content # <<>> /\ Decoded(backend, content).raised # "none"
    THEN [status |-> "rejected", error |-> Decoded(backend, content).raised]
    ELSE [status |-> "resolved",
          plan |-> IF content = <<>> THEN Null ELSE Decoded(backend, content).plan,
          tokenUsage |-> IF backend = "askAI" THEN Undefined ELSE tokenUsage(usage)]

\* What the call resolves with once the transport has answered: askAI returns
\* the plan or null, a provider returns it with the token usage.
HealPlanResult(backend, content, usage) ==
    [status |-> "resolved",
     plan |-> IF content = <<>> THEN Null ELSE Decoded(backend, content).plan,
     tokenUsage |-> IF backend = "askAI" THEN Undefined ELSE tokenUsage(usage)]

ProviderInit ==
    /\ NoWrapper
    /\ NoTasks
    /\ input \in {[fn |-> "generateHealPlan", backend |-> b] : b \in Backends}
    /\ output = Pending
    /\ attempt = 0
    /\ fnLog = <<>>
    /\ slept = <<>>

\* The transport call rejects: the outer catch logs the error and throws it on.
TransportRejects(err) ==
    /\ input.fn = "generateHealPlan"
    /\ output = Pending
    /\ fnLog' = <<[threw |-> TRUE, value |-> err]>>
    /\ output' = [status |-> "rejected", error |-> err]
    /\ UNCHANGED <<input, attempt, slept, healVars, fileVars>>

\* The transport call resolves with a content and, or not, a usage.
TransportResolves(content, usage) ==
    /\ input.fn = "generateHealPlan"
    /\ output = Pending
    /\ fnLog' = <<[threw |-> FALSE, value |-> [content |-> content, usage |-> usage]]>>
    /\ output' = HealPlanResult(input.backend, content, usage)
    /\ UNCHANGED <<input, attempt, slept, healVars, fileVars>>

ProviderNext ==
    \/ \E err \in ThrownValues : TransportRejects(err)
    \/ \E content \in ResponseTexts, usage \in Usages : TransportResolves(content, usage)

SpecProvider == ProviderInit /\ [][ProviderNext]_vars

\* ------------------------------------- cache loads and writes that overlap
\* Two heal calls whose declared locator failed, on one wrapper or on the
\* wrappers of two processes; the other call may run at every await.
TaskIds == {1, 2}
NoInode == 0
FillKey == cacheKey(PageUrl, "fill", "Submit button")

\* JSON.stringify(data, null, 2) as a write over another text can tell it
\* apart: the map written and the length of its text, longer for each entry
\* and for a longer key.
SerializedLength(m) ==
    1 + (IF m[ClickKey] # NoEntry THEN 2 ELSE 0) + (IF m[FillKey] # NoEntry THEN 1 ELSE 0)
\* What an inode holds: nothing (created or truncated by open), or the text
\* of a map followed by what is left of a longer text written before it.
Empty == [length |-> 0]
Text(m, junk) == [length |-> SerializedLength(m) + junk, map |-> m, junk |-> junk]
\* write at position 0 of an inode
WriteOver(old, m) ==
    Text(m, IF old.length > SerializedLength(m) THEN old.length - SerializedLength(m) ELSE 0)
\* The text is the serialization of a map and nothing else.
Complete(content) == content.length > 0 /\ content.junk = 0

\* readJson(cacheFile, {}) at an instant: the map of a complete text, the
\* fallback when the file is absent or JSON.parse rejects what it holds.
readJsonNow(d) ==
    IF d.names.file # NoInode /\ Complete(d.inodes[d.names.file])
    THEN d.inodes[d.names.file].map
    ELSE EmptyCache

\* The state of withHealing: objects are the maps diskCache has referred to,
\* diskCache the one it refers to now; reads are the maps readJson returned
\* (history).
NewWrapper ==
    [mem |-> EmptyMem, diskCacheLoaded |-> FALSE, diskCache |-> 1,
     objects |-> <<EmptyCache>>, reads |-> <<>>]
NewTask(w, k) ==
    [wrapper |-> w, key |-> k, pc |-> "lookup", cache |-> 0, data |-> EmptyCache,
     fd |-> NoInode]

CacheFileInit ==
    /\ NoWrapper
    /\ NoHelperCall
    /\ wrappers = <<NewWrapper, NewWrapper>>
    /\ tasks \in {<<NewTask(1, k1), NewTask(w, k2)>> : w \in {1, 2}, k1 \in Keys, k2 \in Keys}
    /\ disk \in {[names |-> [file |-> NoInode, tmp |-> NoInode], inodes |-> <<>>,
                    lastWrite |-> 0]}
                \cup {[names |-> [file |-> 1, tmp |-> NoInode], inodes |-> <<Text(f.data, 0)>>,
                       lastWrite |-> 0] : f \in {g \in InitFiles : g.readable}}

OthersUnchanged == UNCHANGED <<unitVars, healVars>>

\* ensureDiskCacheLoaded up to its await: the flag is tested, and the read
\* is started or the loaded map is returned.
EnsureStarts(t, reading, loaded) ==
    LET w == wrappers[tasks[t].wrapper]
    IN IF ~w.diskCacheLoaded
       THEN tasks' = [tasks EXCEPT ![t].pc = reading]
       ELSE tasks' = [tasks EXCEPT ![t].pc = loaded, ![t].cache = w.diskCache]

\* Line 213: const cache = await ensureDiskCacheLoaded()
Lookup(t) ==
    /\ tasks # <<>> /\ tasks[t].pc = "lookup"
    /\ EnsureStarts(t, "lookupReads", "lookedUp")
    /\ UNCHANGED <<wrappers, disk>>
    /\ OthersUnchanged

\* Lines 76-77: readJson resolves; diskCache is a new map, the flag is set.
ReadResolves(t) ==
    /\ tasks # <<>> /\ tasks[t].pc \in {"lookupReads", "saveReads"}
    /\ LET w == tasks[t].wrapper
           objects == Append(wrappers[w].objects, readJsonNow(disk))
       IN /\ wrappers' = [wrappers EXCEPT ![w].objects = objects,
                                          ![w].diskCache = Len(objects),
                                          ![w].diskCacheLoaded = TRUE,
                                          ![w].reads = Append(@, readJsonNow(disk))]
          /\ tasks' = [tasks EXCEPT
                          ![t].pc = IF tasks[t].pc = "lookupReads" THEN "lookedUp" ELSE "loaded",
                          ![t].cache = Len(objects)]
    /\ UNCHANGED disk
    /\ OthersUnchanged

\* Lines 214-229: a cached strategy that works ends the call; otherwise the
\* backend is asked and the picker returns a choice.
AfterLookup(t, works) ==
    /\ tasks # <<>> /\ tasks[t].pc = "lookedUp"
    /\ LET w == wrappers[tasks[t].wrapper]
           hit == cacheGet(w.mem, w.objects[tasks[t].cache], tasks[t].key)
       IN tasks' = [tasks EXCEPT ![t].pc = IF hit # NoStrategy /\ works THEN "returned"
                                            ELSE "save"]
    /\ UNCHANGED <<wrappers, disk>>
    /\ OthersUnchanged

\* Lines 173-174: mem.set(key, strategy); await ensureDiskCacheLoaded()
SaveStarts(t) ==
    /\ tasks # <<>> /\ tasks[t].pc = "save"
    /\ wrappers' = [wrappers EXCEPT ![tasks[t].wrapper].mem =
                        saveToCacheMem(@, tasks[t].key, StratB)]
    /\ EnsureStarts(t, "saveReads", "loaded")
    /\ UNCHANGED disk
    /\ OthersUnchanged

\* Lines 175-176: cache[key] = ...; writeAtomic runs up to the await of mkdir.
SaveAssigns(t) ==
    /\ tasks # <<>> /\ tasks[t].pc = "loaded"
    /\ wrappers' = [wrappers EXCEPT ![tasks[t].wrapper].objects[tasks[t].cache] =
                        saveToCacheDisk(@, tasks[t].key, StratB, "Submit button", "")]
    /\ tasks' = [tasks EXCEPT ![t].pc = "mkdir"]
    /\ UNCHANGED disk
    /\ OthersUnchanged

\* utils.ts 290: the map is serialized as it is now and writeFile is called.
WriteStarts(t) ==
    /\ tasks # <<>> /\ tasks[t].pc = "mkdir"
    /\ tasks' = [tasks EXCEPT
                    ![t].pc = "open",
                    ![t].data = wrappers[tasks[t].wrapper].objects[tasks[t].cache]]
    /\ UNCHANGED <<wrappers, disk>>
    /\ OthersUnchanged

\* writeFile opens file + ".tmp" for writing: the inode of that name is
\* truncated, or a new one is created under it.
WriteOpens(t) ==
    /\ tasks # <<>> /\ tasks[t].pc = "open"
    /\ IF disk.names.tmp # NoInode
       THEN /\ disk' = [disk EXCEPT !.inodes[disk.names.tmp] = Empty]
            /\ tasks' = [tasks EXCEPT ![t].pc = "write", ![t].fd = disk.names.tmp]
       ELSE /\ disk' = [disk EXCEPT !.inodes = Append(@, Empty),
                                    !.names.tmp = Len(disk.inodes) + 1]
            /\ tasks' = [tasks EXCEPT ![t].pc = "write", ![t].fd = Len(disk.inodes) + 1]
    /\ UNCHANGED wrappers
    /\ OthersUnchanged

\* writeFile writes the text into the inode it opened; lastWrite keeps the
\* call that wrote last (history).
WriteWrites(t) ==
    /\ tasks # <<>> /\ tasks[t].pc = "write"
    /\ disk' = [disk EXCEPT !.inodes[tasks[t].fd] = WriteOver(@, tasks[t].data),
                             !.lastWrite = t]
    /\ tasks' = [tasks EXCEPT ![t].pc = "rename"]
    /\ UNCHANGED wrappers
    /\ OthersUnchanged

\* utils.ts 291: rename(tmp, file) gives the inode of the temporary name to the
\* cache path, and rejects when there is no such name.
Renames(t) ==
    /\ tasks # <<>> /\ tasks[t].pc = "rename"
    /\ IF disk.names.tmp # NoInode
       THEN /\ disk' = [disk EXCEPT !.names = [file |-> disk.names.tmp, tmp |-> NoInode]]
            /\ tasks' = [tasks EXCEPT ![t].pc = "saved"]
       ELSE /\ disk' = disk
            /\ tasks' = [tasks EXCEPT ![t].pc = "renameFailed"]
    /\ UNCHANGED wrappers
    /\ OthersUnchanged

CacheFileNext ==
    \E t \in TaskIds :
        \/ Lookup(t)
        \/ ReadResolves(t)
        \/ \E works \in BOOLEAN : AfterLookup(t, works)
        \/ SaveStarts(t)
        \/ SaveAssigns(t)
        \/ WriteStarts(t)
        \/ WriteOpens(t)
        \/ WriteWrites(t)
        \/ Renames(t)

SpecCacheFile == CacheFileInit /\ [][CacheFileNext]_vars


\* ------------------------------------------------ isRetryableError on its own
\* The values handed to isRetryableError: null, undefined, and objects with
\* each of status, statusCode, response.status, code and message present or
\* not (NoStatus, "" and <<>> stand for a missing field).
ErrorObject(st, sc, rs, c, m) ==
    [t |-> "object", status |-> st, statusCode |-> sc, response |-> rs, code |-> c,
     message |-> m]
ErrorValues ==
    {ErrorObject(st, sc, rs, c, m) :
        st \in {NoStatus, 400, 401, 429, 500, 503},
        sc \in {NoStatus, 404, 429},
        rs \in {NoStatus, 502},
        c \in {"", "ECONNRESET", "ETIMEDOUT", "ENOTFOUND", "EACCES"},
        m \in {<<>>, <<"Rate", "Limit", "exceeded">>, <<"Server", "Overloaded">>,
               <<"Request", "Timeout">>, <<"Unauthorized">>, <<"Bad", "request">>}}
    \cup {Null, Undefined}

\* Lines 317-321: error?.status ?? error?.statusCode ?? error?.response?.status,
\* error?.code, error?.message ?? ''.
errorFields(err) ==
    IF err.t # "object" THEN Thrown(NoStatus, "", <<>>)
    ELSE Thrown(IF err.status # NoStatus THEN err.status
                ELSE IF err.statusCode # NoStatus THEN err.statusCode
                ELSE err.response,
                err.code, err.message)

RetryableInit ==
    /\ NoWrapper
    /\ NoTasks
    /\ input \in {[fn |-> "isRetryableError", err |-> e] : e \in ErrorValues}
    /\ output = Pending
    /\ attempt = 0
    /\ fnLog = <<>>
    /\ slept = <<>>

RetryableCalls ==
    /\ input.fn = "isRetryableError"
    /\ output = Pending
    /\ output' = FnValue(isRetryableError(errorFields(input.err)))
    /\ UNCHANGED <<input, attempt, fnLog, slept, healVars, fileVars>>

SpecRetryable == RetryableInit /\ [][RetryableCalls]_vars


\* ------------------------------------------------ normalizeResponse on its own
\* Parsed answers whose candidates array mixes the shapes a model produces:
\* nested, flat, an object with neither strategy nor type, and null.
CandidateShapes == {NestedCandidate, FlatCandidate, Obj([a |-> Num(1)]), Null}
ParsedResponses ==
    {Obj([candidates |-> Arr(q)]) : q \in SeqsUpTo(CandidateShapes, MaxResponseItems)}
    \cup ResponseValues

NormalizeInit ==
    /\ NoWrapper
    /\ NoTasks
    /\ input \in {[fn |-> "normalizeResponse", raw |-> v] : v \in ParsedResponses}
    /\ output = Pending
    /\ attempt = 0
    /\ fnLog = <<>>
    /\ slept = <<>>

\* local.ts, line 121: normalizeResponse(raw) returns or throws.
NormalizeCalls ==
    /\ input.fn = "normalizeResponse"
    /\ output = Pending
    /\ output' = FnValue(normalizeResponse(input.raw))
    /\ UNCHANGED <<input, attempt, fnLog, slept, healVars, fileVars>>

SpecNormalize == NormalizeInit /\ [][NormalizeCalls]_vars


\* -------------------------------------------------------------- termination
\* A heal call on a wrapper, or withRetry on its own, with every awaited
\* operation returning or throwing: a step of the call in flight that can be
\* taken is taken. When the test makes its next call is left open.
CallSteps ==
    \/ TryOriginal
    \/ HealFlow
    \/ CacheLookup
    \/ TryCached
    \/ AskAI
    \/ PickValid
    \/ NoChoice
    \/ SaveToCache
    \/ HealedAct
    \/ Catch

TerminationInit == Init \/ WithRetryInit

TerminationNext ==
    \/ input = NoInput /\ Next
    \/ WithRetryNext

SpecTerminates ==
    /\ TerminationInit
    /\ [][TerminationNext]_vars
    /\ WF_vars(input = NoInput /\ CallSteps)
    /\ WF_vars(WithRetryNext)

\* ================================================================== claims
\* What the call did, read off its history.
CacheEvents == {"fileRead", "cacheGet", "cacheNone", "cachedTry", "cachedActOk",
                "cachedFailed", "logCache"}
DeclaredEvents == {"declared", "declaredOk", "declaredFailed"}
Stage(ev) == IF ev \in DeclaredEvents THEN 1 ELSE IF ev \in CacheEvents THEN 2 ELSE 3
LogCalls == Count(trace, "logCache") + Count(trace, "logHealed") + Count(trace, "logFailed")
ActionAttempted ==
    Has(trace, "declared") \/ Has(trace, "cachedTry") \/ Has(trace, "healedTry")
\* The disk map as the call found it, or as it loaded it.
DiskMapAtLookup == IF snap.loaded THEN snap.diskCache ELSE readJson(snap.file)
CachesUntouched ==
    /\ mem = snap.mem
    /\ diskCache = snap.diskCache
    /\ diskCacheLoaded = snap.loaded
    /\ file = snap.file

C2_DeclaredSuccessTouchesNothing ==
    (pc = "done" /\ Has(trace, "declaredOk")) =>
        /\ result = Returned
        /\ trace = <<"declared", "declaredOk">>
        /\ CachesUntouched
        /\ logFile = <<>>

C2_Witness ==
    /\ pc = "done" /\ Has(trace, "declaredOk") /\ enabled
    /\ snap.mem[key] # NoStrategy

\* C3: with healing disabled, a failed attempt on the declared locator rejects
\* the call with the very error that attempt raised, and neither the cache
\* nor the backend is touched.
C3_DisabledRethrowsOriginal ==
    (pc = "done" /\ ~enabled /\ Has(trace, "declaredFailed")) =>
        /\ declErr # NoErr
        /\ result = Rejected(declErr)
        /\ trace = <<"declared", "declaredFailed">>
        /\ CachesUntouched
        /\ logFile = <<>>

C3_Witness ==
    pc = "done" /\ ~enabled /\ Has(trace, "declaredFailed") /\ declErr = ActionError

C5_ExhaustedRichError ==
    (pc = "done" /\ enabled /\ Has(trace, "declaredFailed")
        /\ Has(trace, "noValidCandidate")) =>
        /\ result.status = "rejected"
        /\ result.value # JsNull
        /\ result.value.ctx = call.contextName

\* C6: when the cached strategy of the call's key fails and the picker then
\* accepts a candidate of the backend's plan, the call made exactly one AI
\* request, and the in-memory map and the disk map both hold the picked
\* strategy under that key (the cache file too, once its write succeeded).
C6_StaleEntryOverwritten ==
    (pc = "done" /\ Has(trace, "cachedFailed") /\ Has(trace, "picked")) =>
        /\ Count(trace, "aiRequest") = 1
        /\ choice # NoStrategy
        /\ mem[key] = choice
        /\ diskCache[key].strategy = choice
        /\ Has(trace, "fileWritten") =>
              file.readable /\ file.data[key].strategy = choice

C6_Witness ==
    /\ pc = "done" /\ Has(trace, "cachedFailed") /\ Has(trace, "picked")
    /\ cached = StratA /\ choice = StratB /\ result = Returned

\* C7: when the cache holds an entry for the key and the action on the cached
\* locator succeeds, the call returns with no AI request and no change to the
\* in-memory map or the cache file, and a cache-hit record is logged.
C7_CacheHitTerminal ==
    (pc = "done" /\ Has(trace, "cachedActOk")) =>
        /\ result = Returned
        /\ ~Has(trace, "aiRequest")
        /\ mem = snap.mem
        /\ diskCache = DiskMapAtLookup
        /\ file = snap.file
        /\ Has(trace, "logCache")

\* C8: a call that reaches the cache or AI stage hands exactly one record to
\* the event log by the time it ends, whatever its outcome.
C8_OneLogRecord ==
    (pc = "done" /\ Has(trace, "cacheGet")) => LogCalls = 1

\* C9: a failed cache-file write or log append does not change the outcome:
\* after a failed write of the cache file the action is still executed on
\* the healed locator and the call returns whenever that action succeeds;
\* and a call whose success record was handed to the log returns, appended
\* or not.
C9_BestEffortWrites ==
    pc = "done" =>
        /\ Has(trace, "fileWriteFailed") =>
              /\ Has(trace, "healedTry")
              /\ Has(trace, "healedActOk") => result = Returned
        /\ (Has(trace, "logCache") \/ Has(trace, "logHealed")) => result = Returned

\* C10: when the backend returns no plan the call rejects with a diagnostic
\* error saying that no strategies were tried; nothing is picked, the action
\* is not executed in the AI stage and the cache is not modified.
C10_NoPlanDiagnostic ==
    (pc = "done" /\ Has(trace, "planNull")) =>
        /\ result.status = "rejected"
        /\ result.value.name = "HealError"
        /\ ~Has(trace, "picked") /\ ~Has(trace, "healedTry")
        /\ mem = snap.mem /\ file = snap.file

\* C11: the candidate pickValid returns had a locator that matched exactly one
\* element when it was probed, and that element was visible; the probe did not
\* throw and the strategy had its required field.  (This pickValid has no
\* option that skips the visibility check.)
C11_PickedIsUniqueAndVisible ==
    choice # NoStrategy =>
        /\ ~probed.throws
        /\ probed.count = 1
        /\ probed.visible
        /\ validateStrategy(choice) = ""

\* The second candidate of a plan is returned after the first was passed over.
C11_Witness ==
    /\ pc = "save" /\ choice = StratB /\ idx = 2
    /\ plan.candidates[1] = StratB /\ probed = Probe(FALSE, 1, TRUE)

\* The field a strategy of each kind cannot do without.
RequiredField(s) ==
    CASE s.type = "testid" -> s.value
      [] s.type = "role" -> s.role
      [] s.type = "css" -> s.selector
      [] OTHER -> s.text

\* C12: for a strategy of any of the eight kinds validateStrategy returns a
\* message exactly when the required field of the kind (value, role, text or
\* selector) is absent or empty; and no locator is built on the page from a
\* strategy it returns a message for, neither by the picker nor when the
\* strategy comes from the cache.
C12_ValidateIffRequiredFieldMissing ==
    (input.fn = "strategy" /\ output # Pending) =>
        /\ output.via = "pickValid" =>
              (output.message # "" <=> RequiredField(input.s) = "")
        /\ RequiredField(input.s) = "" => ~output.built

C12_Witness ==
    /\ input.fn = "strategy" /\ output # Pending
    /\ input.s.type = "altText" /\ input.s.text = "" /\ input.s.selector # ""
    /\ output = Handled("pickValid", "missing 'text'", FALSE)

\* C13: cacheKey depends only on the action, the origin and path of the page
\* address, and the description: two calls that agree on these, whatever the
\* query strings and fragments of their addresses, get the same key; and two
\* calls with the same address and description but different actions get
\* different keys.
C13_KeyIgnoresQueryAndFragment ==
    (input.fn = "cacheKey" /\ output # Pending) =>
        /\ ( /\ input.a.action = input.b.action
             /\ input.a.contextName = input.b.contextName
             /\ input.a.href.origin = input.b.href.origin
             /\ URL(input.a.href).pathname = URL(input.b.href).pathname )
               => output.a = output.b
        /\ ( /\ input.a.href = input.b.href
             /\ input.a.contextName = input.b.contextName
             /\ input.a.action # input.b.action )
               => output.a # output.b

C13_Witness ==
    /\ input.fn = "cacheKey" /\ output # Pending
    /\ input.a = [href |-> Href("https://x", "/y", "?q=1", "#h"), action |-> "click",
                  contextName |-> "d"]
    /\ input.b = [href |-> Href("https://x", "/y", "", ""), action |-> "click",
                  contextName |-> "d"]
    /\ output.a = "click::https://x/y::d"
    /\ output.b = output.a

\* A call of fn that failed with an error isRetryableError classifies as
\* retryable, or as not retryable.
FailedRetryable(c) == c.status = "rejected" /\ isRetryableError(c.value)
FailedForGood(c) == c.status = "rejected" /\ ~isRetryableError(c.value)

\* C14: when every call of fn failed with a retryable error and withRetry has
\* settled, fn was called exactly maxRetries + 1 times, a backoff delay was
\* waited after each call but the last, and withRetry rejected with the error
\* of the last call.
C14_ExhaustedRetries ==
    (input.fn = "withRetry" /\ output # Pending
        /\ \A i \in 1..Len(fnLog) : FailedRetryable(fnLog[i])) =>
        /\ Len(fnLog) = input.maxRetries + 1
        /\ Len(slept) = input.maxRetries
        /\ output = fnLog[Len(fnLog)]

C14_Witness ==
    /\ input.fn = "withRetry" /\ input.maxRetries = 2
    /\ fnLog = <<Rejected(Thrown(429, "", <<"Unauthorized">>)),
                 Rejected(Thrown(429, "", <<"Unauthorized">>)),
                 Rejected(Thrown(500, "", <<"Unauthorized">>))>>
    /\ output = Rejected(Thrown(500, "", <<"Unauthorized">>))

\* C15: a call of fn that fails with an error classified as not retryable is
\* the last call: withRetry has rejected with that error, and no delay was
\* waited for it (the delays waited are those of the calls before it).  When
\* it is the first call, fn was called once, whatever maxRetries is.
C15_NonRetryableStopsAtOnce ==
    input.fn = "withRetry" =>
        \A i \in 1..Len(fnLog) :
            FailedForGood(fnLog[i]) =>
                /\ i = Len(fnLog)
                /\ output = fnLog[i]
                /\ Len(slept) = i - 1

C15_Witness ==
    /\ input.fn = "withRetry" /\ input.maxRetries = 2
    /\ fnLog = <<Rejected(Thrown(401, "", <<"Unauthorized">>))>>
    /\ output = Rejected(Thrown(401, "", <<"Unauthorized">>))
    /\ slept = <<>>

\* C16: after k <= maxRetries calls of fn that all failed with retryable
\* errors withRetry has not settled, so fn is called again; and a call of fn
\* that succeeds is the last call, whose value withRetry returns.
C16_SuccessAfterRetries ==
    input.fn = "withRetry" =>
        /\ ( /\ Len(fnLog) <= input.maxRetries
             /\ \A i \in 1..Len(fnLog) : FailedRetryable(fnLog[i]) )
               => output = Pending
        /\ \A i \in 1..Len(fnLog) :
              fnLog[i].status = "resolved" =>
                  /\ i = Len(fnLog)
                  /\ output = fnLog[i]
                  /\ \A j \in 1..(i - 1) : FailedRetryable(fnLog[j])

\* HTTP 429 twice, then a plan, with maxRetries = 2: three calls.
C16_Witness ==
    /\ input.fn = "withRetry" /\ input.maxRetries = 2
    /\ fnLog = <<Rejected(Thrown(429, "", <<"Unauthorized">>)),
                 Rejected(Thrown(429, "", <<"Unauthorized">>)),
                 Resolved(FnValue("plan"))>>
    /\ output = Resolved(FnValue("plan"))
    /\ slept = <<1000, 2000>>

\* C17: when the first call of fn fails with an error of HTTP status 401, fn
\* is called once and withRetry rejects with that error without a delay,
\* whatever maxRetries, the message and the code are.
C17_NoRetryOn401 ==
    (input.fn = "withRetry" /\ fnLog # <<>>
        /\ fnLog[1].status = "rejected" /\ fnLog[1].value.status = 401) =>
        /\ Len(fnLog) = 1
        /\ output = fnLog[1]
        /\ slept = <<>>

\* The status, code and message of an error of the backend client.
ApiErrorValue(e) ==
    IF e.name = "RateLimitError" THEN Thrown(429, "", <<"Rate", "limit", "reached">>)
    ELSE Thrown(401, "", <<"Unauthorized">>)

\* C18: a call does not fail on the first backend error that is classified as
\* retryable: when its AI stage ended on such an error, the request had been
\* made more than once.
C18_RetryableBackendErrorRetried ==
    (pc = "done" /\ healErr \in ApiErrors /\ isRetryableError(ApiErrorValue(healErr))) =>
        Count(trace, "aiRequest") > 1

\* C19: rankCandidates returns its input as it is when it has at most limit
\* candidates; otherwise it returns exactly limit of the input's candidates,
\* in an order in which the score never increases and candidates of equal
\* score are in DOM order.
C19_RankedPrefix ==
    (input.fn = "rankCandidates" /\ output # Pending) =>
        LET given == input.candidates
            got == output.candidates
        IN IF Len(given) <= input.limit
           THEN got = given
           ELSE /\ Len(got) = input.limit
                /\ \A k \in 1..Len(got) : \E i \in 1..Len(given) : got[k] = given[i]
                /\ \A k, l \in 1..Len(got) :
                      k < l =>
                          LET sk == score(got[k], input.contextName)
                              sl == score(got[l], input.contextName)
                          IN sk >= sl /\ (sk = sl => got[k].el < got[l].el)

\* Three candidates, limit 2: the two of equal, higher score are returned in
\* DOM order, the first candidate is dropped.
C19_Witness ==
    /\ input.fn = "rankCandidates" /\ output # Pending
    /\ Len(input.candidates) = 3 /\ input.limit = 2
    /\ score(input.candidates[1], input.contextName)
           < score(input.candidates[2], input.contextName)
    /\ score(input.candidates[2], input.contextName)
           = score(input.candidates[3], input.contextName)
    /\ output.candidates = <<input.candidates[2], input.candidates[3]>>

\* Whether a candidate's placeholder or aria-label contains "email".
MentionsEmail(cand) ==
    \/ includes(toLowerCase(cand.attrs["ph"]), <<"email">>)
    \/ includes(toLowerCase(cand.attrs["aria"]), <<"email">>)
\* The place of an input candidate in the returned list, 0 when it is dropped.
PlaceOf(cand) ==
    IF \E k \in 1..Len(output.candidates) : output.candidates[k].el = cand.el
    THEN CHOOSE k \in 1..Len(output.candidates) : output.candidates[k].el = cand.el
    ELSE 0
RankedAbove(a, b) == PlaceOf(a) # 0 /\ (PlaceOf(b) = 0 \/ PlaceOf(a) < PlaceOf(b))
\* No text field of the candidate contains a word of the description or is
\* part of the description.
SharesNothing(cand, contextName) ==
    LET ctx == toLowerCase(contextName)
    IN \A i \in 1..Len(TextKeys) :
          LET t == toLowerCase(cand.attrs[TextKeys[i]])
          IN t # <<>> =>
                /\ ~includes(ctx, t)
                /\ \A j \in 1..Len(ctx) : ~includes(t, <<ctx[j]>>)

\* C20, as claimed: with more candidates than the limit and the description
\* "Email input field", exactly limit candidates are returned, and a
\* candidate whose placeholder or aria-label contains "email" is never dropped
\* in favour of, or placed after, one whose placeholder and aria-label do not.
C20_EmailAlwaysFirst ==
    (input.fn = "rankCandidates" /\ output # Pending
        /\ input.contextName = EmailInputField
        /\ Len(input.candidates) > input.limit) =>
        /\ Len(output.candidates) = input.limit
        /\ \A i, j \in 1..Len(input.candidates) :
              LET a == input.candidates[i]
                  b == input.candidates[j]
              IN (MentionsEmail(a) /\ ~MentionsEmail(b) /\ PlaceOf(b) # 0)
                     => RankedAbove(a, b)

\* C20, as amended: with more candidates than the limit and the description
\* "Email input field", exactly limit candidates are returned, and a
\* candidate whose placeholder or aria-label contains "email" is ranked above
\* every candidate that has the same tag and visibility, has or lacks a test
\* id as it does, and has no text field that contains a word of the
\* description or is part of it.
C20_EmailAboveUnrelated ==
    (input.fn = "rankCandidates" /\ output # Pending
        /\ input.contextName = EmailInputField
        /\ Len(input.candidates) > input.limit) =>
        /\ Len(output.candidates) = input.limit
        /\ \A i, j \in 1..Len(input.candidates) :
              LET a == input.candidates[i]
                  b == input.candidates[j]
              IN ( /\ MentionsEmail(a)
                   /\ SharesNothing(b, input.contextName)
                   /\ a.tag = b.tag /\ a.hid = b.hid
                   /\ (a.attrs["tid"] = <<>>) = (b.attrs["tid"] = <<>>)
                   /\ PlaceOf(b) # 0 )
                     => RankedAbove(a, b)

\* An unrelated hidden div comes first in the DOM, the hidden div with the
\* placeholder "Enter your Email" second: with limit 2 of 3 the second is
\* returned before the first.
C20_Witness ==
    /\ input.fn = "rankCandidates" /\ output # Pending
    /\ Len(input.candidates) = 3 /\ input.limit = 2
    /\ MentionsEmail(input.candidates[2])
    /\ SharesNothing(input.candidates[1], input.contextName)
    /\ input.candidates[1].tag = input.candidates[2].tag
    /\ input.candidates[1].hid = input.candidates[2].hid
    /\ PlaceOf(input.candidates[2]) # 0
    /\ PlaceOf(input.candidates[1]) > PlaceOf(input.candidates[2])

\* C21: on a response that is valid JSON cleanJson changes nothing but the
\* whitespace around it, what is between the quotes of a string included,
\* and applying it to its own result gives that result again.
C21_NoOpOnValidJson ==
    (input.fn = "cleanJson" /\ output # Pending) =>
        /\ output.once = trim(input.raw)
        /\ output.twice = output.once

C23_FileReadAtMostOnce ==
    \A w \in 1..Len(wrappers) : Len(wrappers[w].reads) <= 1

\* C24: whenever there is a file at the cache path it holds the complete text
\* of a map some writer serialized, and no rename of a cache write fails.
C24_FileAlwaysComplete ==
    /\ tasks # <<>> /\ disk.names.file # NoInode => Complete(disk.inodes[disk.names.file])
    /\ \A t \in 1..Len(tasks) : tasks[t].pc # "renameFailed"

\* C25: two processes that loaded the same cache file and healed two
\* distinct keys leave the file equal to the full map of the process that
\* wrote last.
C25_FileIsLastWritersMap ==
    (/\ tasks # <<>>
     /\ tasks[2].wrapper = 2
     /\ tasks[1].key # tasks[2].key
     /\ \A t \in TaskIds : tasks[t].pc \in {"saved", "renameFailed"}
     /\ wrappers[1].reads = wrappers[2].reads)
        => disk.inodes[disk.names.file] = Text(tasks[disk.lastWrite].data, 0)

C27_EachStageAtMostOnce ==
    pc # "idle" =>
        /\ Count(trace, "declared") <= 1
        /\ Count(trace, "cachedTry") <= 1
        /\ Count(trace, "aiRequest") <= 1
        /\ Count(trace, "picked") <= 1
        /\ Count(trace, "healedTry") <= 1
        /\ Count(trace, "declared") + Count(trace, "cachedTry") + Count(trace, "healedTry") <= 3
        /\ \A i, j \in 1..Len(trace) : i < j => Stage(trace[i]) <= Stage(trace[j])

C27_Witness ==
    /\ pc = "done"
    /\ Has(trace, "declared") /\ Has(trace, "cachedTry") /\ Has(trace, "healedTry")
    /\ result # Returned

\* C28: pickValid examines the candidates one after the other from the first
\* of the plan, never one beyond the first maxAiTries; it goes on to the next
\* only when the one examined fails validation or its probe, returns the
\* one examined as soon as it passes, and returns null after the last of
\* the first maxAiTries, whatever follows in the plan.
C28_PickerInPlanOrder ==
    [][/\ (pc # "pick" /\ pc' = "pick") => idx' = 1
       /\ (pc = "pick" /\ ~plan.isNull) =>
              LET n == Min(Len(plan.candidates), maxAiTries)
              IN \/ /\ idx <= n
                    /\ pc' = "pick" /\ idx' = idx + 1 /\ plan' = plan
                    /\ \/ validateStrategy(plan.candidates[idx]) # ""
                       \/ RejectReason(probed') # ""
                 \/ /\ idx <= n
                    /\ pc' = "save" /\ choice' = plan.candidates[idx]
                    /\ validateStrategy(plan.candidates[idx]) = ""
                    /\ RejectReason(probed') = ""
                 \/ /\ idx = n + 1
                    /\ pc' = "noChoice" /\ choice' = NoStrategy]_vars

\* The picker returned null with a candidate left in the plan that it never
\* examined.
C28_Witness ==
    /\ pc = "noChoice"
    /\ maxAiTries < Len(plan.candidates)
    /\ idx = maxAiTries + 1
    /\ validateStrategy(plan.candidates[Len(plan.candidates)]) = ""

\* C29: the picked strategy is in the in-memory map, in the disk map and in
\* the cache file before the action is tried on the healed locator; when that
\* attempt fails the call rejects and the three still hold the strategy under
\* the key; and a call that finds a strategy under its key in the in-memory
\* map tries that strategy as the cached one.
C29_SavedBeforeHealedAction ==
    /\ (pc # "idle" /\ Has(trace, "healedTry")) =>
          /\ \E i, j, k, l \in 1..Len(trace) :
                /\ i < j /\ j < k /\ k < l
                /\ trace[i] = "picked" /\ trace[j] = "cacheSet"
                /\ trace[k] = "fileWritten" /\ trace[l] = "healedTry"
          /\ mem[key] = choice
          /\ diskCache[key].strategy = choice
          /\ file = FileOf(diskCache)
    /\ (pc = "done" /\ Has(trace, "healedTry") /\ ~Has(trace, "logHealed")) =>
          result \notin {Returned, NoResult}
    /\ (pc \notin {"idle", "tryOriginal", "healFlow", "cacheLookup"}
           /\ Has(trace, "cacheGet") /\ snap.mem[key] # NoStrategy) =>
          /\ cached = snap.mem[key]
          /\ pc # "tryCached" => Has(trace, "cachedTry")

\* A call finds the strategy an earlier call saved, tries it, heals again when
\* it fails, and rejects because the action on the healed locator fails too.
C29_Witness ==
    /\ pc = "done"
    /\ snap.mem[key] # NoStrategy
    /\ Has(trace, "cachedTry") /\ Has(trace, "healedTry")
    /\ ~Has(trace, "logHealed")
    /\ result # Returned
    /\ mem[key] = choice

\* ------------------------------------------------ the banner across tests
\* showBannerOnce and setTestName are the only code that touches
\* currentTestName and bannerShownForTest; a heal call matters to them only
\* by whether it reaches line 206. One enabled wrapper is followed over
\* several tests and calls.
MaxBannerCalls == 4        \* heal calls made on the wrapper over its tests
BannerNames == TestNames \cup {"t2"}

BannerInit ==
    /\ enabled = TRUE
    /\ openai = FALSE
    /\ maxAiTries = DefaultMaxAiTries
    /\ currentTestName \in BannerNames
    /\ bannerShownForTest = ""
    /\ banners = <<>>
    /\ mem = EmptyMem
    /\ diskCacheLoaded = FALSE
    /\ diskCache = EmptyCache
    /\ file = NoFile
    /\ logFile = <<>>
    /\ NoHealCall
    /\ savedBy = [k \in Keys |-> ""]
    /\ calls = 0
    /\ NoHelperCall
    /\ NoTasks

\* healAction, lines 192-195: the declared locator worked and the call
\* returned before line 206.
HealReturnsEarly ==
    /\ pc = "idle"
    /\ calls < MaxBannerCalls
    /\ calls' = calls + 1
    /\ UNCHANGED <<unitVars, fileVars, cfgVars, bannerVars, cacheVars, logFile, pc, localVars, result,
                   trace, declErr, probed, snap, savedBy>>

\* healAction, line 206: the call went past the declared locator, by a
\* failure of it or without one, and whatever it does next leaves the banner
\* state alone.
HealGoesOn ==
    /\ pc = "idle"
    /\ calls < MaxBannerCalls
    /\ calls' = calls + 1
    /\ showBannerOnce
    /\ UNCHANGED <<unitVars, fileVars, cfgVars, cacheVars, logFile, pc, localVars, result,
                   trace, declErr, probed, snap, savedBy>>

BannerNext ==
    \/ HealReturnsEarly
    \/ HealGoesOn
    \/ \E n \in BannerNames \ {""} : SetTestName(n)

SpecBanner == BannerInit /\ [][BannerNext]_vars

\* C30: for each test name the banner is emitted exactly once, by the first
\* call under that name that goes past the declared locator, and by no later
\* call under that name, whatever setTestName calls and heal calls come in
\* between.
C30_BannerOncePerTestName ==
    \A i \in 1..Len(banners) :
        banners[i].testName # "" =>
            (banners[i].banner <=>
                ~\E j \in 1..(i - 1) : banners[j].testName = banners[i].testName)

\* C31: isRetryableError returns true exactly when the error's HTTP status
\* (status, else statusCode, else response.status) is 429 or at least 500, or
\* its code is ECONNRESET, ETIMEDOUT or ENOTFOUND, or its message contains
\* "rate limit", "timeout" or "overloaded" in any case; it returns false for
\* null and undefined and for a 400 or 401 error with none of those.
C31_RetryableExactly ==
    (input.fn = "isRetryableError" /\ output # Pending) =>
        LET e == input.err
            st == IF e.status # NoStatus THEN e.status
                  ELSE IF e.statusCode # NoStatus THEN e.statusCode ELSE e.response
            transientCode == e.code \in {"ECONNRESET", "ETIMEDOUT", "ENOTFOUND"}
            transientText ==
                \E i \in 1..Len(e.message) :
                    \/ e.message[i] \in {"Timeout", "timeout", "Overloaded", "overloaded"}
                    \/ /\ i < Len(e.message)
                       /\ e.message[i] \in {"Rate", "rate"}
                       /\ e.message[i + 1] \in {"Limit", "limit"}
        IN /\ e.t # "object" => output.result = FALSE
           /\ e.t = "object" =>
                 /\ output.result <=> (st = 429 \/ st >= 500 \/ transientCode \/ transientText)
                 /\ (st \in {400, 401} /\ ~transientCode /\ ~transientText) =>
                        output.result = FALSE

\* An error with no status and no code was classified as retryable by its
\* message "Rate Limit exceeded".
C31_Witness ==
    /\ input.fn = "isRetryableError"
    /\ input.err = ErrorObject(NoStatus, NoStatus, NoStatus, "",
                               <<"Rate", "Limit", "exceeded">>)
    /\ output = FnValue(TRUE)

\* C32: rankCandidates only reorders and truncates. Every candidate it
\* returns is one of the input and is returned once; a candidate of the input
\* is missing from the result exactly when at least limit other candidates
\* sort before it (score descending, DOM position ascending), so that a
\* candidate with score 0 is returned whenever fewer than limit precede it.
C32_ReordersAndTruncates ==
    (input.fn = "rankCandidates" /\ output # Pending) =>
        LET cs == input.candidates
            out == output.candidates
            scores == [i \in 1..Len(cs) |-> score(cs[i], input.contextName)]
            before(i) == {j \in 1..Len(cs) :
                             scores[j] > scores[i] \/ (scores[j] = scores[i] /\ j < i)}
            returned(i) == \E k \in 1..Len(out) : out[k] = cs[i]
        IN /\ \A k \in 1..Len(out) : \E i \in 1..Len(cs) : out[k] = cs[i]
           /\ \A k, l \in 1..Len(out) : out[k] = out[l] => k = l
           /\ \A i \in 1..Len(cs) : returned(i) <=> Cardinality(before(i)) < input.limit

\* A list longer than the limit was cut, and a candidate that scores 0 is
\* among those returned.
C32_Witness ==
    /\ input.fn = "rankCandidates"
    /\ output # Pending
    /\ Len(input.candidates) > input.limit
    /\ Len(output.candidates) = input.limit
    /\ \E k \in 1..Len(output.candidates) :
           score(output.candidates[k], input.contextName) = 0

\* C33: no step of a heal call deletes a cache entry. A key that holds a
\* strategy in the in-memory map, or an entry in the loaded disk map, still
\* holds one after every step; and an entry changes only in saveToCache, under
\* the key of the call, to the strategy the picker accepted.
C33_EntriesNeverDeleted ==
    [][\A k \in Keys :
          /\ mem[k] # NoStrategy => mem'[k] # NoStrategy
          /\ (diskCacheLoaded /\ diskCache[k] # NoEntry) =>
                (diskCacheLoaded' /\ diskCache'[k] # NoEntry)
          /\ (mem'[k] # mem[k] \/ (diskCacheLoaded /\ diskCache'[k] # diskCache[k])) =>
                /\ pc = "save"
                /\ k = key
                /\ Has(trace, "picked")
                /\ choice # NoStrategy
                /\ mem'[k] = choice
                /\ diskCache'[k].strategy = choice]_vars

\* A call found an entry under its key in the loaded disk map, healed again,
\* and saveToCache put another strategy in its place, while the in-memory
\* map still holds what an earlier call saved under another key.
C33_Witness ==
    /\ Has(trace, "cacheSet")
    /\ snap.loaded
    /\ snap.diskCache[key] # NoEntry
    /\ diskCache[key].strategy = choice
    /\ choice # snap.diskCache[key].strategy
    /\ \E k \in Keys \ {key} : snap.mem[k] # NoStrategy /\ mem[k] = snap.mem[k]

\* C34: in the result of normalizeResponse every element of candidates that
\* arrived with a type and without a strategy wrapper has its type under
\* strategy, with confidence and why beside it, whatever the other elements
\* of the array look like; an element that arrived with a strategy wrapper is
\* returned as it was.
C34_EveryFlatCandidateReshaped ==
    (/\ input.fn = "normalizeResponse"
     /\ output # Pending
     /\ output.result # TypeError
     /\ Get(input.raw, "candidates").t = "array") =>
        LET before == Get(input.raw, "candidates").items
            after == Get(output.result, "candidates").items
        IN /\ Len(after) = Len(before)
           /\ \A i \in 1..Len(before) :
                 /\ Truthy(Get(before[i], "strategy")) => after[i] = before[i]
                 /\ (Truthy(Get(before[i], "type")) /\ ~Truthy(Get(before[i], "strategy"))) =>
                       /\ Get(Get(after[i], "strategy"), "type") = Get(before[i], "type")
                       /\ Get(after[i], "type") = Undefined
                       /\ Get(after[i], "confidence") = Get(before[i], "confidence")
                       /\ Get(after[i], "why") = Get(before[i], "why")

\* C35: in one call the action callback completes successfully on at most
\* one locator, the declared, the cached or the healed one.
C35_ActionSucceedsOnce ==
    Count(trace, "declaredOk") + Count(trace, "cachedActOk") + Count(trace, "healedActOk") <= 1

\* C36: with calls made one after the other, once the disk map is loaded
\* every key that holds a strategy in the in-memory map holds the same
\* strategy in the disk map, so that mem.get(key) ?? cache[key] is what
\* cache[key] alone gives; and the in-memory map is empty until then.
C36_MemoryWithinDiskMap ==
    /\ diskCacheLoaded =>
          \A k \in Keys :
             /\ mem[k] # NoStrategy => diskCache[k].strategy = mem[k]
             /\ cacheGet(mem, diskCache, k) = diskCache[k].strategy
    /\ ~diskCacheLoaded => mem = EmptyMem

\* After a heal under one key the in-memory map holds its strategy, and the
\* disk map holds it too, next to an entry the file brought for another key.
C36_Witness ==
    /\ diskCacheLoaded
    /\ pc = "idle"
    /\ \E k \in Keys \ {ClickKey} : mem[k] # NoStrategy /\ diskCache[k].strategy = mem[k]
    /\ mem[ClickKey] = NoStrategy
    /\ diskCache[ClickKey] # NoEntry

\* C37: saveToCache under one key leaves the entry of every other key as it
\* was, in the in-memory map and in the disk map, and the file it writes
\* holds the entries the disk map had before, with the entry of the saved key
\* set to the picked strategy, and no other entry.
C37_SaveLeavesOtherKeys ==
    [][pc = "save" =>
          /\ diskCacheLoaded
          /\ \A k \in Keys \ {key} : mem'[k] = mem[k] /\ diskCache'[k] = diskCache[k]
          /\ mem'[key] = choice
          /\ Has(trace', "fileWritten") =>
                /\ file'.readable
                /\ \A k \in Keys \ {key} : file'.data[k] = diskCache[k]
                /\ file'.data[key] = [strategy |-> choice, context |-> call.contextName,
                                      testName |-> currentTestName]]_vars

\* A save under one key wrote a file that still holds the entry an earlier
\* call saved under another key, and the in-memory map still holds that
\* entry's strategy.
C37_Witness ==
    /\ Has(trace, "fileWritten")
    /\ file.readable
    /\ file.data[key].strategy = choice
    /\ \E k \in Keys \ {key} :
          /\ snap.mem[k] # NoStrategy
          /\ mem[k] = snap.mem[k]
          /\ file.data[k] = snap.diskCache[k]
          /\ file.data[k].strategy = mem[k]

\* C38: a strategy saved by a call of one heal method is never looked up and
\* never overwritten by a call of another heal method: a call that finds
\* under its key a strategy this wrapper saved, and a call about to save over
\* one, is a call of the method that saved it.
C38_KeysSeparateMethods ==
    /\ (pc = "tryCached" /\ snap.mem[key] # NoStrategy) => savedBy[key] = call.method
    /\ (pc = "save" /\ mem[key] # NoStrategy) => savedBy[key] = call.method

\* C39: an exception raised while pickValid probes a candidate rejects that
\* candidate only: the picker goes on to the next position of the plan, and
\* no step of the picker over a plan ends in healAction's catch.
C39_ProbeErrorRejectsOneCandidate ==
    [][(pc = "pick" /\ ~plan.isNull) =>
          /\ pc' \in {"pick", "save", "noChoice"}
          /\ healErr' = healErr
          /\ (/\ idx <= Min(Len(plan.candidates), maxAiTries)
              /\ validateStrategy(plan.candidates[idx]) = ""
              /\ probed'.throws) =>
                 /\ pc' = "pick"
                 /\ idx' = idx + 1
                 /\ choice' = choice
                 /\ plan' = plan]_vars

\* The probe of the first candidate threw, and the picker stands at the
\* second with nothing thrown.
C39_Witness ==
    /\ pc = "pick"
    /\ probed.throws
    /\ idx = 2
    /\ Len(plan.candidates) >= 2
    /\ maxAiTries >= 2
    /\ validateStrategy(plan.candidates[1]) = ""
    /\ healErr = NoErr

\* C40: every heal call comes to its end, returning or rejecting, when each
\* operation it awaits returns or throws: the picker examines at most
\* maxAiTries candidates and no stage is entered again; and withRetry comes
\* to its end after at most maxRetries + 1 calls of fn, whatever fn does.
C40_CallsTerminate ==
    /\ []((pc = "pick" /\ ~plan.isNull) =>
             idx <= Min(Len(plan.candidates), maxAiTries) + 1)
    /\ [](input.fn = "withRetry" => Len(fnLog) <= input.maxRetries + 1)
    /\ (pc \notin {"idle", "done"}) ~> (pc = "done")
    /\ (input.fn = "withRetry") ~> (output # Pending)

\* withRetry gave up after maxRetries + 1 failed calls of fn, each failure a
\* retryable one.
C40_Witness ==
    /\ input.fn = "withRetry"
    /\ input.maxRetries = MaxRetriesGiven
    /\ Len(fnLog) = input.maxRetries + 1
    /\ output.status = "rejected"
    /\ \A i \in 1..Len(fnLog) : FailedRetryable(fnLog[i])

====
